---------------------------- MODULE Spec2Model ----------------------------
(***************************************************************************)
(* The task store of the index scheduler (crates/index-scheduler/src/      *)
(* utils.rs) and the processor loop that drives it, and the extraction     *)
(* cache of the indexer (crates/milli/src/update/new/extract/cache.rs).    *)
(*                                                                         *)
(* The key-value environment is one record `db` holding every table; a     *)
(* write transaction is a function from that record to a new record, and   *)
(* a commit installs the new record.  A panic or an error inside a write   *)
(* transaction drops the transaction: `db` stays as it was.                *)
(***************************************************************************)
EXTENDS Integers, Sequences, FiniteSets, TLC

\* ---------------------------------------------------------------- bounds
MaxTasks == 2       \* number of enqueue calls in a behaviour
MaxTime == 1        \* last value of the wall clock

\* ------------------------------------------------------------- constants
\* Option::None for every Option<u32> / Option<OffsetDateTime> field.
None == -1

Statuses == {"Enqueued", "Processing", "Succeeded", "Failed", "Canceled"}
Terminal == {"Succeeded", "Failed", "Canceled"}
\* Kind (the enum without content).
Kinds == {"DocumentAdditionOrUpdate", "DocumentDeletion", "IndexCreation",
          "IndexUpdate", "IndexSwap", "TaskCancelation", "TaskDeletion"}
\* The kinds that create or update one index.
IndexOps == {"IndexCreation", "IndexUpdate"}
Indexes == {"a", "b"}
NoIndex == "-"
\* Task::error == None, and the error codes the processor writes.
NoError == "-"
Times == 0..MaxTime

VARIABLES
    db,          \* the committed task environment (every table)
    file_store,  \* uuids of the update files present on disk
    now,         \* the last reading of the wall clock, in nanoseconds
    debug,       \* the build: TRUE when debug assertions are compiled in
    pc,          \* the processor's position in its loop
    pb,          \* the ProcessingBatch staged in RAM
    ids,         \* the uids claimed by the batch in flight
    wtxn,        \* the terminal write transaction, opened and not committed
    enqueues,    \* history: the <<uid, kind>> of every enqueue, in order
    call,        \* the last direct update_task call and how it ended
    caches,      \* the extraction cache (BalancedCaches) of each thread
    inserted,    \* history: the <<thread, side, key, n>> of every insert
    frozen,      \* the groups transpose_and_freeze_caches handed out
    emitted,     \* per merged bucket, the callback calls in order
    receiver,    \* the LeaderMsg on their way from the leader, in order
    follower,    \* the Follower: its channels and its batch_id
    thread,      \* the position of the thread that calls the follower
    history      \* history: what the leader sent and the follower did

\* The variables of the indexing cache.
cache_vars == <<caches, inserted, frozen, emitted>>

\* The variables of the cluster.
cluster_vars == <<receiver, follower, thread, history>>

vars == <<db, file_store, now, debug, pc, pb, ids, wtxn, enqueues, call,
          cache_vars, cluster_vars>>

\* ---------------------------------------------------------------- helpers
Max(S) == CHOOSE x \in S : \A y \in S : y <= x
Min(S) == CHOOSE x \in S : \A y \in S : x <= y

RECURSIVE SetToSeq(_)
\* The elements of a set of integers in ascending order (a bitmap's iteration).
SetToSeq(S) == IF S = {} THEN <<>> ELSE <<Min(S)>> \o SetToSeq(S \ {Min(S)})

\* ------------------------------------------------------------------ tasks
\* KindWithContent::as_kind.
as_kind(kind) ==
    CASE kind.tag = "DocumentAdditionOrUpdate" -> "DocumentAdditionOrUpdate"
      [] kind.tag = "DocumentClear" -> "DocumentDeletion"
      [] kind.tag = "IndexCreation" -> "IndexCreation"
      [] kind.tag = "IndexUpdate" -> "IndexUpdate"
      [] kind.tag = "IndexSwap" -> "IndexSwap"
      [] kind.tag = "TaskCancelation" -> "TaskCancelation"
      [] kind.tag = "TaskDeletion" -> "TaskDeletion"

\* Task::index_uid: the index of a task that has exactly one.
index_uid(task) ==
    IF task.kind.tag \in {"DocumentAdditionOrUpdate", "DocumentClear"} \cup IndexOps
    THEN task.kind.index_uid ELSE NoIndex

\* Task::indexes: every index the task references.
indexes(task) ==
    CASE task.kind.tag \in {"DocumentAdditionOrUpdate", "DocumentClear"}
                              \cup IndexOps ->
            {task.kind.index_uid}
      [] task.kind.tag = "IndexSwap" ->
            UNION {{task.kind.swaps[i][1], task.kind.swaps[i][2]} :
                       i \in 1..Len(task.kind.swaps)}
      [] OTHER -> {}

\* The content of a kind, every field present in every variant.
DocumentAdditionOrUpdate(index, file) ==
    [tag |-> "DocumentAdditionOrUpdate", index_uid |-> index,
     content_file |-> file, tasks |-> {}, swaps |-> <<>>]
DocumentClear(index) ==
    [tag |-> "DocumentClear", index_uid |-> index,
     content_file |-> None, tasks |-> {}, swaps |-> <<>>]
IndexCreation(index) ==
    [tag |-> "IndexCreation", index_uid |-> index,
     content_file |-> None, tasks |-> {}, swaps |-> <<>>]
IndexUpdate(index) ==
    [tag |-> "IndexUpdate", index_uid |-> index,
     content_file |-> None, tasks |-> {}, swaps |-> <<>>]
IndexSwap(swaps) ==
    [tag |-> "IndexSwap", index_uid |-> NoIndex,
     content_file |-> None, tasks |-> {}, swaps |-> swaps]
TaskCancelation(tasks) ==
    [tag |-> "TaskCancelation", index_uid |-> NoIndex,
     content_file |-> None, tasks |-> tasks, swaps |-> <<>>]
TaskDeletion(tasks) ==
    [tag |-> "TaskDeletion", index_uid |-> NoIndex,
     content_file |-> None, tasks |-> tasks, swaps |-> <<>>]

\* Task::details, every field present in every variant.  The tag is the
\* variant of Details: "TaskCancelation", "TaskDeletion", "IndexSwap",
\* "Other" for the variants the task store does not read.
Details(tag, matched_tasks, swaps) ==
    [tag |-> tag, matched_tasks |-> matched_tasks, canceled_tasks |-> None,
     deleted_tasks |-> None, swaps |-> swaps]

\* Task::details == None.
NoDetails == Details("None", None, <<>>)

\* KindWithContent::default_details.
default_details(kind) ==
    IF kind.tag \in {"TaskCancelation", "TaskDeletion"}
    THEN Details(kind.tag, Cardinality(kind.tasks), <<>>)
    ELSE IF kind.tag = "IndexSwap" THEN Details("IndexSwap", None, kind.swaps)
    ELSE Details("Other", None, <<>>)


\* ------------------------------------------------------------- task store
EmptyDb ==
    [all_tasks |-> <<>>,
     status |-> [s \in Statuses |-> {}],
     kind |-> [k \in Kinds |-> {}],
     index_tasks |-> [i \in Indexes |-> {}],
     enqueued_at |-> [t \in Times |-> {}],
     started_at |-> [t \in Times |-> {}],
     finished_at |-> [t \in Times |-> {}],
     all_batches |-> <<>>,
     batch_to_tasks_mapping |-> <<>>,
     batch_status |-> [s \in Statuses |-> {}],
     batch_kind |-> [k \in Kinds |-> {}],
     index_mapping |-> {},
     batch_index_tasks |-> [i \in Indexes |-> {}],
     batch_enqueued_at |-> [t \in Times |-> {}],
     batch_started_at |-> [t \in Times |-> {}],
     batch_finished_at |-> [t \in Times |-> {}]]

\* A table with the entry of key k set to v (Database::put).
Put(table, k, v) == [x \in DOMAIN table \cup {k} |-> IF x = k THEN v ELSE table[x]]
\* A table without the entry of key k (Database::delete).
Delete(table, k) == [x \in DOMAIN table \ {k} |-> table[x]]

\* OffsetDateTime::unix_timestamp_nanos: the clock of the model already
\* counts nanoseconds since the epoch.
unix_timestamp_nanos(time) == time

\* Mutation of last_task_id: the last key itself, not its successor.
last_task_id_last_key(d) ==
    IF DOMAIN d.all_tasks = {} THEN None ELSE Max(DOMAIN d.all_tasks)

\* last_task_id: the key after the last key of all_tasks, None when empty.
last_task_id(d) ==
    IF DOMAIN d.all_tasks = {} THEN None ELSE Max(DOMAIN d.all_tasks) + 1

\* Mutation of next_task_id: the id handed out is the last key.
next_task_id_reused(d) ==
    IF last_task_id(d) = None THEN 0 ELSE last_task_id(d) - 1

next_task_id(d) == IF last_task_id(d) = None THEN 0 ELSE last_task_id(d)

\* Mutation of next_batch_id: the last batch id itself, not its successor.
next_batch_id_last_key(d) ==
    IF DOMAIN d.all_batches = {} THEN 0 ELSE Max(DOMAIN d.all_batches)

next_batch_id(d) ==
    IF DOMAIN d.all_batches = {} THEN 0 ELSE Max(DOMAIN d.all_batches) + 1

\* get_task: None when the uid is not stored.
HasTask(d, task_id) == task_id \in DOMAIN d.all_tasks
get_task(d, task_id) == d.all_tasks[task_id]

\* insert_task_datetime on one timestamp table.
insert_task_datetime(database, time, task_id) ==
    [database EXCEPT ![unix_timestamp_nanos(time)] = @ \cup {task_id}]

\* remove_task_datetime on one timestamp table (an empty entry is deleted:
\* the empty set stands for the missing key).
remove_task_datetime(database, time, task_id) ==
    [database EXCEPT ![unix_timestamp_nanos(time)] = @ \ {task_id}]

\* Mutation of keep_ids_within_datetimes: the bounds are inclusive.
keep_ids_within_datetimes_included(uids, database, after, before) ==
    IF after = None /\ before = None THEN [res |-> "ok", ids |-> uids]
    ELSE LET range == {k \in DOMAIN database :
                          /\ after # None => unix_timestamp_nanos(after) <= k
                          /\ before # None => k <= unix_timestamp_nanos(before)}
         IN  [res |-> "ok", ids |-> uids \cap UNION {database[k] : k \in range}]

\* keep_ids_within_datetimes on one timestamp table: the ids left in the
\* bitmap.  Both bounds are Bound::Excluded, a missing one Bound::Unbounded;
\* the range of an empty interval yields no entry.
keep_ids_within_datetimes(uids, database, after, before) ==
    IF after = None /\ before = None THEN [res |-> "ok", ids |-> uids]
    ELSE LET range == {k \in DOMAIN database :
                          /\ after # None => unix_timestamp_nanos(after) < k
                          /\ before # None => k < unix_timestamp_nanos(before)}
             collected_ids == UNION {database[k] : k \in range}
         IN  [res |-> "ok", ids |-> uids \cap collected_ids]

\* update_status / update_kind / update_index with an inserting closure.
update_status_insert(d, status, uid) ==
    [d EXCEPT !.status[status] = @ \cup {uid}]
update_status_remove(d, status, uid) ==
    [d EXCEPT !.status[status] = @ \ {uid}]
update_kind_insert(d, kind, uid) == [d EXCEPT !.kind[kind] = @ \cup {uid}]
update_kind_remove(d, kind, uid) == [d EXCEPT !.kind[kind] = @ \ {uid}]
update_index_insert(d, index, uid) ==
    [d EXCEPT !.index_tasks[index] = @ \cup {uid}]
update_index_remove(d, index, uid) ==
    [d EXCEPT !.index_tasks[index] = @ \ {uid}]

\* The debug assertions at the top of update_task.
update_task_debug_assert(old_task, task) ==
    /\ old_task # task
    /\ old_task.uid = task.uid
    /\ old_task.batch_uid = None /\ task.batch_uid # None

\* Mutation of update_task_status: the uid is never removed from the bitmap
\* of the old status.
update_task_status_stale(d, old_task, task) ==
    IF old_task.status # task.status
    THEN update_status_insert(d, task.status, task.uid)
    ELSE d

\* The status bitmaps after update_task.
update_task_status(d, old_task, task) ==
    IF old_task.status # task.status
    THEN update_status_insert(
             update_status_remove(d, old_task.status, task.uid),
             task.status, task.uid)
    ELSE d

\* The kind bitmaps after update_task.
update_task_kind(d, old_task, task) ==
    IF as_kind(old_task.kind) # as_kind(task.kind)
    THEN update_kind_insert(
             update_kind_remove(d, as_kind(old_task.kind), task.uid),
             as_kind(task.kind), task.uid)
    ELSE d

\* The three hard assertions of update_task on the timestamps.
update_task_assert(old_task, task) ==
    /\ old_task.enqueued_at = task.enqueued_at
    /\ old_task.started_at # task.started_at => old_task.started_at = None
    /\ old_task.finished_at # task.finished_at => old_task.finished_at = None

\* Mutation of update_task_datetimes: finished_at is never indexed.
update_task_datetimes_unfinished(d, old_task, task) ==
    IF old_task.started_at # task.started_at /\ task.started_at # None
    THEN [d EXCEPT !.started_at =
              insert_task_datetime(@, task.started_at, task.uid)]
    ELSE d

\* The timestamp tables after update_task.
update_task_datetimes(d, old_task, task) ==
    LET d1 == IF old_task.started_at # task.started_at /\ task.started_at # None
              THEN [d EXCEPT !.started_at =
                        insert_task_datetime(@, task.started_at, task.uid)]
              ELSE d
    IN  IF old_task.finished_at # task.finished_at /\ task.finished_at # None
        THEN [d1 EXCEPT !.finished_at =
                  insert_task_datetime(@, task.finished_at, task.uid)]
        ELSE d1

\* update_task inside a write transaction whose view is d.  The result is
\* "ok" with the new view, "err" (CorruptedTaskQueue: the uid is not stored)
\* or "panic" (an assertion failed); the view of a failed call is never
\* committed.
update_task(d, task, dbg) ==
    IF ~HasTask(d, task.uid) THEN [res |-> "err", db |-> d]
    ELSE LET old_task == get_task(d, task.uid)
             d1 == update_task_status(d, old_task, task)
             d2 == update_task_kind(d1, old_task, task)
             d3 == update_task_datetimes(d2, old_task, task)
         IN  IF dbg /\ ~update_task_debug_assert(old_task, task)
             THEN [res |-> "panic", db |-> d]
             ELSE IF ~update_task_assert(old_task, task)
             THEN [res |-> "panic", db |-> d]
             ELSE [res |-> "ok",
                   db |-> [d3 EXCEPT !.all_tasks = Put(@, task.uid, task)]]

RECURSIVE update_tasks(_, _, _)
\* update_task on each task of a sequence, in one write transaction; stops
\* at the first call that does not return Ok.
update_tasks(d, tasks, dbg) ==
    IF tasks = <<>> THEN [res |-> "ok", db |-> d]
    ELSE LET r == update_task(d, Head(tasks), dbg)
         IN  IF r.res # "ok" THEN r ELSE update_tasks(r.db, Tail(tasks), dbg)

\* Mutation of filter_out_references_to_newer_tasks: the range removed
\* starts after the task's own uid.
filter_out_references_to_newer_tasks_after_self(task) ==
    IF task.kind.tag \in {"TaskCancelation", "TaskDeletion"}
    THEN LET tasks == {t \in task.kind.tasks : t <= task.uid}
         IN  [task EXCEPT !.kind.tasks = tasks,
                          !.details.matched_tasks =
                              IF task.details.tag \in
                                     {"TaskCancelation", "TaskDeletion"}
                              THEN Cardinality(tasks) ELSE @]
    ELSE task

\* Mutation of filter_out_references_to_newer_tasks: the counter of the
\* details is left as it was.
filter_out_references_to_newer_tasks_stale_count(task) ==
    IF task.kind.tag \in {"TaskCancelation", "TaskDeletion"}
    THEN [task EXCEPT !.kind.tasks = {t \in @ : t < task.uid}]
    ELSE task

\* filter_out_references_to_newer_tasks.
filter_out_references_to_newer_tasks(task) ==
    IF task.kind.tag \in {"TaskCancelation", "TaskDeletion"}
    THEN LET tasks == {t \in task.kind.tasks : t < task.uid}
         IN  [task EXCEPT !.kind.tasks = tasks,
                          !.details.matched_tasks =
                              IF task.details.tag \in
                                     {"TaskCancelation", "TaskDeletion"}
                              THEN Cardinality(tasks) ELSE @]
    ELSE task

\* The names of the pairs of an index swap, in the order the loop of
\* check_index_swap_validity visits them: lhs, rhs of the first pair, ...
swap_names(swaps) ==
    [i \in 1..(2 * Len(swaps)) |->
        swaps[(i + 1) \div 2][IF i % 2 = 1 THEN 1 ELSE 2]]

RECURSIVE duplicate_indexes(_, _, _)
\* The loop of check_index_swap_validity: a name that all_indexes already
\* holds when it is inserted goes to duplicate_indexes.
duplicate_indexes(names, all_indexes, duplicates) ==
    IF names = <<>> THEN duplicates
    ELSE duplicate_indexes(Tail(names), all_indexes \cup {Head(names)},
                           IF Head(names) \in all_indexes
                           THEN duplicates \cup {Head(names)} ELSE duplicates)

\* Mutation of check_index_swap_validity: a name is compared with the names
\* of the other pairs only.
check_index_swap_validity_across(task) ==
    IF task.kind.tag # "IndexSwap" THEN [res |-> "ok", indexes |-> {}]
    ELSE LET swaps == task.kind.swaps
             dups == {n \in {swaps[i][1] : i \in DOMAIN swaps}
                              \cup {swaps[i][2] : i \in DOMAIN swaps} :
                         \E i, j \in DOMAIN swaps :
                             i # j /\ n \in {swaps[i][1], swaps[i][2]}
                                   /\ n \in {swaps[j][1], swaps[j][2]}}
         IN  IF dups = {} THEN [res |-> "ok", indexes |-> {}]
             ELSE [res |-> "err", indexes |-> dups]

\* check_index_swap_validity: Ok, or the error SwapDuplicateIndexFound /
\* SwapDuplicateIndexesFound with the indexes it names.
check_index_swap_validity(task) ==
    IF task.kind.tag # "IndexSwap" THEN [res |-> "ok", indexes |-> {}]
    ELSE LET dups == duplicate_indexes(swap_names(task.kind.swaps), {}, {})
         IN  IF dups = {} THEN [res |-> "ok", indexes |-> {}]
             ELSE [res |-> "err", indexes |-> dups]

\* Mutation of swap_name: only the left name is replaced.
swap_name_one_way(name, lhs, rhs) == IF name = lhs THEN rhs ELSE name

\* The rewrite of one index name by swap_index_uid_in_task.
swap_name(name, lhs, rhs) ==
    IF name = lhs THEN rhs ELSE IF name = rhs THEN lhs ELSE name

\* swap_index_uid_in_task(task, (lhs, rhs)).
swap_index_uid_in_task(task, lhs, rhs) ==
    LET swapped(swaps) ==
            [i \in DOMAIN swaps |-> <<swap_name(swaps[i][1], lhs, rhs),
                                      swap_name(swaps[i][2], lhs, rhs)>>]
        kind == task.kind
        k1 == IF kind.tag \in {"DocumentAdditionOrUpdate", "DocumentClear"}
                                \cup IndexOps
              THEN [kind EXCEPT !.index_uid = swap_name(@, lhs, rhs)]
              ELSE IF kind.tag = "IndexSwap"
              THEN [kind EXCEPT !.swaps = swapped(@)]
              ELSE kind
    IN  [task EXCEPT !.kind = k1,
                     !.details.swaps =
                         IF task.details.tag = "IndexSwap" THEN swapped(@) ELSE @]


\* -------------------------------------------------------- ProcessingBatch
ZeroStats ==
    [total_nb_tasks |-> 0,
     status |-> [s \in Statuses |-> 0],
     types |-> [k \in Kinds |-> 0],
     index_uids |-> [i \in Indexes |-> 0]]

\* ProcessingBatch::new at time `time`.
ProcessingBatch_new(uid, time) ==
    [uid |-> uid,
     stats |-> ZeroStats,
     statuses |-> {"Processing"},
     kinds |-> {},
     indexes |-> {},
     canceled_by |-> {},
     oldest_enqueued_at |-> None,
     earliest_enqueued_at |-> None,
     started_at |-> time,
     finished_at |-> None]

\* The value of `pb` while no batch is staged.
NoBatch == ProcessingBatch_new(None, 0)

\* The per-task counters both processing and update bump.
stats_count(stats, task, status) ==
    [stats EXCEPT !.total_nb_tasks = @ + 1,
                  !.status[status] = @ + 1,
                  !.types[as_kind(task.kind)] = @ + 1,
                  !.index_uids =
                      IF index_uid(task) # NoIndex
                      THEN [@ EXCEPT ![index_uid(task)] = @ + 1] ELSE @]

\* Mutation of processing: the batch id is not written in the task.
processing_without_batch_uid(batch, task) ==
    [pb |-> [batch EXCEPT
                !.stats = stats_count(@, task, "Processing"),
                !.kinds = @ \cup {as_kind(task.kind)},
                !.indexes = @ \cup indexes(task),
                !.canceled_by =
                    IF task.canceled_by # None THEN @ \cup {task.canceled_by} ELSE @,
                !.oldest_enqueued_at =
                    IF @ = None THEN task.enqueued_at
                    ELSE Min({task.enqueued_at, @}),
                !.earliest_enqueued_at =
                    IF @ = None THEN task.enqueued_at
                    ELSE Max({task.enqueued_at, @})],
     task |-> task]

\* ProcessingBatch::processing on one task: the batch and the task after it.
processing(batch, task) ==
    [pb |-> [batch EXCEPT
                !.stats = stats_count(@, task, "Processing"),
                !.kinds = @ \cup {as_kind(task.kind)},
                !.indexes = @ \cup indexes(task),
                !.canceled_by =
                    IF task.canceled_by # None THEN @ \cup {task.canceled_by} ELSE @,
                !.oldest_enqueued_at =
                    IF @ = None THEN task.enqueued_at
                    ELSE Min({task.enqueued_at, @}),
                !.earliest_enqueued_at =
                    IF @ = None THEN task.enqueued_at
                    ELSE Max({task.enqueued_at, @})],
     task |-> [task EXCEPT !.batch_uid = batch.uid]]

\* Mutation of finished: the statistics of the processing phase are kept.
finished_keeps_stats(batch, time) ==
    [batch EXCEPT !.finished_at = time,
                  !.statuses = {}]

\* Mutation of finished: finished_at is left unset.
finished_without_time(batch, time) ==
    [batch EXCEPT !.stats = ZeroStats,
                  !.statuses = {}]

\* ProcessingBatch::finished at time `time`.
finished(batch, time) ==
    [batch EXCEPT !.stats = ZeroStats,
                  !.finished_at = time,
                  !.statuses = {}]

\* ProcessingBatch::update on one task: the batch and the task after it.
update(batch, task) ==
    [pb |-> [batch EXCEPT !.statuses = @ \cup {task.status},
                          !.stats = stats_count(@, task, task.status)],
     task |-> [task EXCEPT !.batch_uid = batch.uid,
                           !.started_at = batch.started_at,
                           !.finished_at = batch.finished_at]]

\* ProcessingBatch::to_batch, the record write_batch stores.
to_batch(batch) ==
    [uid |-> batch.uid, stats |-> batch.stats,
     started_at |-> batch.started_at, finished_at |-> batch.finished_at]

\* write_batch inside a write transaction whose view is d; "panic" when
\* finished_at is unwrapped and absent.
write_batch(d, batch, tasks) ==
    IF batch.finished_at = None THEN [res |-> "panic", db |-> d]
    ELSE LET ins(table, keys) ==
                 [k \in DOMAIN table |->
                     IF k \in keys THEN table[k] \cup {batch.uid} ELSE table[k]]
             enq == {batch.oldest_enqueued_at, batch.earliest_enqueued_at} \ {None}
         IN  [res |-> "ok",
              db |-> [d EXCEPT
                 !.all_batches = Put(@, batch.uid, to_batch(batch)),
                 !.batch_to_tasks_mapping = Put(@, batch.uid, tasks),
                 !.batch_status = ins(@, batch.statuses),
                 !.batch_kind = ins(@, batch.kinds),
                 !.batch_index_tasks = ins(@, batch.indexes),
                 !.batch_enqueued_at =
                     ins(@, {unix_timestamp_nanos(t) : t \in enq}),
                 !.batch_started_at =
                     ins(@, {unix_timestamp_nanos(batch.started_at)}),
                 !.batch_finished_at =
                     ins(@, {unix_timestamp_nanos(batch.finished_at)})]]

\* tasks_in_batch: the empty bitmap when the batch has no entry.
tasks_in_batch(d, batch_id) ==
    IF batch_id \in DOMAIN d.batch_to_tasks_mapping
    THEN d.batch_to_tasks_mapping[batch_id] ELSE {}


\* ---------------------------------------------------------------- enqueue
\* The task a registration creates.
new_task(uid, kind, time) ==
    [uid |-> uid, batch_uid |-> None, enqueued_at |-> time,
     started_at |-> None, finished_at |-> None, canceled_by |-> None,
     status |-> "Enqueued", kind |-> kind, details |-> default_details(kind),
     error |-> NoError]

\* enqueue(kind): the write transaction of a registration on the view d.
\* "err" when the index swap is not valid; nothing is written then.
register(d, kind, time) ==
    LET task == filter_out_references_to_newer_tasks(
                    new_task(next_task_id(d), kind, time))
        RECURSIVE ins_indexes(_, _)
        ins_indexes(dd, S) ==
            IF S = {} THEN dd
            ELSE LET i == CHOOSE x \in S : TRUE
                 IN  ins_indexes(update_index_insert(dd, i, task.uid), S \ {i})
        d1 == [d EXCEPT !.all_tasks = Put(@, task.uid, task)]
        d2 == ins_indexes(d1, indexes(task))
        d3 == update_status_insert(d2, "Enqueued", task.uid)
        d4 == update_kind_insert(d3, as_kind(task.kind), task.uid)
        d5 == [d4 EXCEPT !.enqueued_at =
                   insert_task_datetime(@, task.enqueued_at, task.uid)]
    IN  IF check_index_swap_validity(task).res # "ok"
        THEN [res |-> "err", db |-> d, task |-> task]
        ELSE [res |-> "ok", db |-> d5, task |-> task]

\* ---------------------------------------------------------------- batcher
\* Mutation of next_batch: no priority for cancelations and deletions, the
\* batch is built around the oldest enqueued task.
next_batch_oldest_first(d) ==
    LET enqueued == d.status["Enqueued"]
        to_cancel == enqueued \cap d.kind["TaskCancelation"]
        to_delete == enqueued \cap d.kind["TaskDeletion"]
        first == get_task(d, Min(enqueued))
        on_index == enqueued \cap d.index_tasks[index_uid(first)]
        ops == {u \in on_index : get_task(d, u).kind.tag \in IndexOps}
        of_index == IF ops = {} THEN on_index
                    ELSE {u \in on_index : u < Min(ops)}
        clears == {u \in of_index : get_task(d, u).kind.tag = "DocumentClear"}
        after == {u \in of_index : u > Min(clears) /\
                     get_task(d, u).kind.tag # "DocumentClear"}
    IN  IF enqueued = {} THEN {}
        ELSE IF first.kind.tag = "TaskCancelation" THEN to_cancel
        ELSE IF first.kind.tag = "TaskDeletion" THEN to_delete
        ELSE IF index_uid(first) = NoIndex THEN {first.uid}
        ELSE IF first.kind.tag \in IndexOps THEN {first.uid}
        ELSE IF clears = {} THEN of_index
        ELSE IF after = {} THEN of_index
        ELSE {u \in of_index : u < Min(after)}

\* The uids of the next batch: every enqueued cancelation, else every
\* enqueued deletion, else the oldest enqueued task alone when it creates
\* or updates an index, else, for the index of the oldest enqueued task, its
\* enqueued document tasks up to the end of the first run of DocumentClear
\* (the clear absorbs the additions before it) or, with no clear, all of
\* them; an index creation or update ends the run of document tasks.
next_batch(d) ==
    LET enqueued == d.status["Enqueued"]
        to_cancel == enqueued \cap d.kind["TaskCancelation"]
        to_delete == enqueued \cap d.kind["TaskDeletion"]
        first == get_task(d, Min(enqueued))
        on_index == enqueued \cap d.index_tasks[index_uid(first)]
        ops == {u \in on_index : get_task(d, u).kind.tag \in IndexOps}
        of_index == IF ops = {} THEN on_index
                    ELSE {u \in on_index : u < Min(ops)}
        clears == {u \in of_index : get_task(d, u).kind.tag = "DocumentClear"}
        after == {u \in of_index : u > Min(clears) /\
                     get_task(d, u).kind.tag # "DocumentClear"}
    IN  IF to_cancel # {} THEN to_cancel
        ELSE IF to_delete # {} THEN to_delete
        ELSE IF enqueued = {} THEN {}
        ELSE IF index_uid(first) = NoIndex THEN {first.uid}
        ELSE IF first.kind.tag \in IndexOps THEN {first.uid}
        ELSE IF clears = {} THEN of_index
        ELSE IF after = {} THEN of_index
        ELSE {u \in of_index : u < Min(after)}


\* -------------------------------------------------------------- processor
RECURSIVE claim_tasks(_, _, _)
\* The first half of a tick on the tasks of uids `uids` (ascending): each
\* is loaded, marked Processing and handed to ProcessingBatch::processing.
\* The result is the batch and the sequence of marked tasks.
claim_tasks(d, batch, uids) ==
    IF uids = <<>> THEN [pb |-> batch, tasks |-> <<>>]
    ELSE LET task == [get_task(d, Head(uids)) EXCEPT !.status = "Processing"]
             r == processing(batch, task)
             rest == claim_tasks(d, r.pb, Tail(uids))
         IN  [pb |-> rest.pb, tasks |-> <<r.task>> \o rest.tasks]

\* Mutation of index_operation: an update of a missing index succeeds.
index_operation_unchecked(d, kind) ==
    IF kind.tag = "IndexCreation" /\ kind.index_uid \in d.index_mapping
    THEN [status |-> "Failed", error |-> "index_already_exists"]
    ELSE [status |-> "Succeeded", error |-> NoError]

\* The outcome of an IndexCreation or IndexUpdate task on the view d: a
\* user error fails the task and is carried by it.
index_operation(d, kind) ==
    IF kind.tag = "IndexUpdate" /\ kind.index_uid \notin d.index_mapping
    THEN [status |-> "Failed", error |-> "index_not_found"]
    ELSE IF kind.tag = "IndexCreation" /\ kind.index_uid \in d.index_mapping
    THEN [status |-> "Failed", error |-> "index_already_exists"]
    ELSE [status |-> "Succeeded", error |-> NoError]

\* The cancelation task an enqueued task is canceled by: the oldest task of
\* the batch that targets it.
canceled_by_of(d, batch_ids, uid) ==
    Min({c \in batch_ids : uid \in get_task(d, c).kind.tasks})

\* Mutation of process_batch: a cancelation cancels every task it matches,
\* whatever its status.
process_batch_cancel_any(d, batch_ids, files) ==
    LET one == get_task(d, Min(batch_ids))
        tag == one.kind.tag
        matched == UNION {get_task(d, c).kind.tasks : c \in batch_ids}
        to_cancel == IF tag = "TaskCancelation"
                     THEN matched \cap DOMAIN d.all_tasks ELSE {}
        to_delete == IF tag = "TaskDeletion"
                     THEN matched \cap (d.status["Succeeded"] \cup
                              d.status["Failed"] \cup d.status["Canceled"])
                     ELSE {}
        has_clear == \E u \in batch_ids : get_task(d, u).kind.tag = "DocumentClear"
        done(u) ==
            LET task == get_task(d, u)
            IN  [task EXCEPT
                    !.status =
                        IF task.kind.tag \in IndexOps
                        THEN index_operation(d, task.kind).status
                        ELSE IF task.kind.tag = "DocumentAdditionOrUpdate" /\ ~has_clear
                           /\ task.kind.content_file \notin files
                        THEN "Failed" ELSE "Succeeded",
                    !.error =
                        IF task.kind.tag \in IndexOps
                        THEN index_operation(d, task.kind).error ELSE @,
                    !.details.canceled_tasks =
                        IF task.kind.tag = "TaskCancelation"
                        THEN Cardinality(task.kind.tasks \cap to_cancel) ELSE @,
                    !.details.deleted_tasks =
                        IF task.kind.tag = "TaskDeletion"
                        THEN Cardinality(task.kind.tasks \cap to_delete) ELSE @]
        canceled(u) ==
            [get_task(d, u) EXCEPT !.status = "Canceled",
                                   !.canceled_by = canceled_by_of(d, batch_ids, u)]
        cs == SetToSeq(to_cancel)
        bs == SetToSeq(batch_ids)
    IN  [tasks |-> [i \in 1..Len(cs) |-> canceled(cs[i])]
                       \o [i \in 1..Len(bs) |-> done(bs[i])],
         deleted |-> to_delete,
         created |-> IF tag = "IndexCreation" /\ done(one.uid).status = "Succeeded"
                     THEN {one.kind.index_uid} ELSE {}]

\* process_batch: the tasks the batch hands back, each with its terminal
\* status, in the order they are updated, and the uids the batch deletes.
\*  - a cancelation batch cancels the targets that are still Enqueued; they
\*    come back with the batch, before the cancelation tasks;
\*  - a deletion batch deletes the targets that are in a terminal status;
\*  - a batch with a DocumentClear succeeds as a whole, its additions unread;
\*  - a document addition succeeds when its update file can be read;
\*  - a cancelation or deletion task records how many of its targets the
\*    batch canceled or deleted;
\*  - an index creation or update ends as index_operation says, and a
\*    successful creation hands back the index it created.
process_batch(d, batch_ids, files) ==
    LET one == get_task(d, Min(batch_ids))
        tag == one.kind.tag
        matched == UNION {get_task(d, c).kind.tasks : c \in batch_ids}
        to_cancel == IF tag = "TaskCancelation"
                     THEN matched \cap d.status["Enqueued"] ELSE {}
        to_delete == IF tag = "TaskDeletion"
                     THEN matched \cap (d.status["Succeeded"] \cup
                              d.status["Failed"] \cup d.status["Canceled"])
                     ELSE {}
        has_clear == \E u \in batch_ids : get_task(d, u).kind.tag = "DocumentClear"
        done(u) ==
            LET task == get_task(d, u)
            IN  [task EXCEPT
                    !.status =
                        IF task.kind.tag \in IndexOps
                        THEN index_operation(d, task.kind).status
                        ELSE IF task.kind.tag = "DocumentAdditionOrUpdate" /\ ~has_clear
                           /\ task.kind.content_file \notin files
                        THEN "Failed" ELSE "Succeeded",
                    !.error =
                        IF task.kind.tag \in IndexOps
                        THEN index_operation(d, task.kind).error ELSE @,
                    !.details.canceled_tasks =
                        IF task.kind.tag = "TaskCancelation"
                        THEN Cardinality(task.kind.tasks \cap to_cancel) ELSE @,
                    !.details.deleted_tasks =
                        IF task.kind.tag = "TaskDeletion"
                        THEN Cardinality(task.kind.tasks \cap to_delete) ELSE @]
        canceled(u) ==
            [get_task(d, u) EXCEPT !.status = "Canceled",
                                   !.canceled_by = canceled_by_of(d, batch_ids, u)]
        cs == SetToSeq(to_cancel)
        bs == SetToSeq(batch_ids)
    IN  [tasks |-> [i \in 1..Len(cs) |-> canceled(cs[i])]
                       \o [i \in 1..Len(bs) |-> done(bs[i])],
         deleted |-> to_delete,
         created |-> IF tag = "IndexCreation" /\ done(one.uid).status = "Succeeded"
                     THEN {one.kind.index_uid} ELSE {}]

\* The removal of one task from every table (a deletion batch).
delete_task(d, task) ==
    LET RECURSIVE rm_indexes(_, _)
        rm_indexes(dd, S) ==
            IF S = {} THEN dd
            ELSE LET i == CHOOSE x \in S : TRUE
                 IN  rm_indexes(update_index_remove(dd, i, task.uid), S \ {i})
        d1 == rm_indexes(d, indexes(task))
        d2 == update_status_remove(d1, task.status, task.uid)
        d3 == update_kind_remove(d2, as_kind(task.kind), task.uid)
        d4 == [d3 EXCEPT
                 !.enqueued_at = remove_task_datetime(@, task.enqueued_at, task.uid),
                 !.started_at = IF task.started_at # None
                                THEN remove_task_datetime(@, task.started_at, task.uid)
                                ELSE @,
                 !.finished_at = IF task.finished_at # None
                                 THEN remove_task_datetime(@, task.finished_at, task.uid)
                                 ELSE @,
                 !.batch_to_tasks_mapping =
                     [b \in DOMAIN @ |-> @[b] \ {task.uid}]]
    IN  [d4 EXCEPT !.all_tasks = Delete(@, task.uid)]

RECURSIVE delete_tasks(_, _)
delete_tasks(d, uids) ==
    IF uids = {} THEN d
    ELSE LET u == Min(uids)
         IN  delete_tasks(delete_task(d, get_task(d, u)), uids \ {u})

RECURSIVE update_all(_, _, _, _)
\* The terminal loop of a tick: ProcessingBatch::update then update_task on
\* each task handed back, in one write transaction.
update_all(d, batch, tasks, dbg) ==
    IF tasks = <<>> THEN [res |-> "ok", db |-> d, pb |-> batch]
    ELSE LET u == update(batch, Head(tasks))
             r == update_task(d, u.task, dbg)
         IN  IF r.res # "ok" THEN [res |-> r.res, db |-> d, pb |-> batch]
             ELSE update_all(r.db, u.pb, Tail(tasks), dbg)

\* The update files of the tasks that reached a terminal status.
completed_files(tasks) ==
    {tasks[i].kind.content_file : i \in 1..Len(tasks)} \ {None}

\* The terminal write transaction of a tick, on the committed view d:
\* process_batch, finished(), update and update_task on each task,
\* write_batch, the mapping of the created index.  The transaction is left
\* open.
terminal_txn(d, batch, batch_ids, files, time, dbg) ==
    LET out == process_batch(d, batch_ids, files)
        d1 == delete_tasks(d, out.deleted)
        upd == update_all(d1, finished(batch, time), out.tasks, dbg)
        wb == write_batch(upd.db, upd.pb, batch_ids)
    IN  IF upd.res # "ok" THEN [res |-> upd.res, db |-> d, files |-> {}]
        ELSE [res |-> wb.res,
              db |-> [wb.db EXCEPT !.index_mapping = @ \cup out.created],
              files |-> completed_files(out.tasks)]

\* The startup recovery pass: every Processing task is Enqueued again, its
\* batch_uid cleared.
RECURSIVE recover(_, _)
recover(d, uids) ==
    IF uids = {} THEN d
    ELSE LET u == Min(uids)
             task == [get_task(d, u) EXCEPT !.status = "Enqueued",
                                            !.batch_uid = None]
             d1 == update_status_insert(
                       update_status_remove(d, "Processing", u), "Enqueued", u)
         IN  recover([d1 EXCEPT !.all_tasks = Put(@, u, task)], uids \ {u})


\* ---------------------------------------------------------- specification
\* The value of `call` when the last step was no direct update_task call.
NoCall ==
    [uid |-> None, res |-> "none",
     task |-> new_task(None, DocumentClear(NoIndex), 0)]

\* The target sets a cancelation or deletion query can match: every task
\* up to some uid, the enqueued task itself and newer ones included.
TargetSets == {0..k : k \in 0..(MaxTasks - 1)}

\* The kinds a client enqueues; `file` is the uuid of the update file the
\* client created for a document addition.  Index names are interchangeable:
\* the first task ever enqueued names "a" if it names an index.
EnqueueKinds(file) ==
    {DocumentAdditionOrUpdate(i, file) : i \in IF file = 0 THEN {"a"} ELSE Indexes}
    \cup {DocumentClear(i) : i \in IF file = 0 THEN {"a"} ELSE Indexes}
    \cup {TaskCancelation(ts) : ts \in TargetSets}
    \cup {TaskDeletion(ts) : ts \in TargetSets}

\* The values OffsetDateTime::now_utc can return: the clock does not run
\* backwards, and two readings can be equal.
Clock == now..MaxTime

\* The node is not in a cluster: Follower::join was not called.
NoFollower ==
    [sender |-> <<>>, get_batch |-> <<>>, must_commit |-> <<>>,
     register_new_task |-> <<>>, api_key_op |-> <<>>, batch_id |-> 0]
NoHistory == [sent |-> <<>>, got |-> <<>>, seen |-> <<>>, committed |-> <<>>]
NoCluster ==
    /\ receiver = <<>>
    /\ follower = NoFollower
    /\ thread = "idle"
    /\ history = NoHistory

\* No extraction is running: there is no cache.
NoGroups == [res |-> "none", groups |-> <<>>]
NoCaches ==
    /\ caches = <<>>
    /\ inserted = {}
    /\ frozen = NoGroups
    /\ emitted = <<>>

\* The scheduler after construction, on an empty environment.
NoTasks ==
    /\ db = EmptyDb
    /\ file_store = {}
    /\ now = 0
    /\ pc = "idle"
    /\ pb = NoBatch
    /\ ids = {}
    /\ wtxn = EmptyDb
    /\ enqueues = <<>>
    /\ call = NoCall

Init ==
    /\ NoTasks
    /\ debug \in BOOLEAN
    /\ NoCaches
    /\ NoCluster

\* A client enqueues a task (create_update_file, persist, register).  The
\* registration takes the write lock of the task environment, which the
\* processor holds while its terminal transaction is open.
EnqueueWithin(kinds, times, limit) ==
    /\ pc \notin {"down", "committing"}
    /\ Len(enqueues) < limit
    /\ \E kind \in kinds, time \in times :
          LET r == register(db, kind, time)
          IN  /\ r.res = "ok"
              /\ now' = time
              /\ db' = r.db
              /\ file_store' = file_store \cup ({kind.content_file} \ {None})
              /\ enqueues' = Append(enqueues, <<r.task.uid, as_kind(kind)>>)
    /\ call' = NoCall
    /\ UNCHANGED <<debug, pc, pb, ids, wtxn, cache_vars, cluster_vars>>

EnqueueOf(kinds, times) == EnqueueWithin(kinds, times, MaxTasks)

Enqueue == EnqueueOf(EnqueueKinds(Len(enqueues)), Clock)

\* The first commit of a tick: the batcher selects, the tasks are marked
\* Processing with their batch_uid, update_task stores each, commit.
ClaimBatch ==
    /\ pc = "idle"
    /\ next_batch(db) # {}
    /\ \E time \in Clock :
         LET uids == next_batch(db)
             c == claim_tasks(db, ProcessingBatch_new(next_batch_id(db), time),
                              SetToSeq(uids))
             r == update_tasks(db, c.tasks, debug)
         IN  /\ now' = time
             /\ IF r.res = "ok"
                THEN /\ db' = r.db
                     /\ pc' = "processing"
                     /\ pb' = c.pb
                     /\ ids' = uids
                ELSE /\ pc' = "panicked"
                     /\ UNCHANGED <<db, pb, ids>>
    /\ call' = NoCall
    /\ UNCHANGED <<file_store, debug, wtxn, enqueues, cache_vars, cluster_vars>>

\* The batch is processed, the terminal write transaction is opened and
\* filled, and the update files of the completed tasks are deleted.
FinishBatch ==
    /\ pc = "processing"
    /\ \E time \in Clock :
         LET r == terminal_txn(db, pb, ids, file_store, time, debug)
         IN  /\ now' = time
             /\ IF r.res = "ok"
                THEN /\ wtxn' = r.db
                     /\ file_store' = file_store \ r.files
                     /\ pc' = "committing"
                     /\ UNCHANGED <<pb, ids>>
                ELSE /\ pc' = "panicked"
                     /\ pb' = NoBatch
                     /\ ids' = {}
                     /\ UNCHANGED <<wtxn, file_store>>
    /\ call' = NoCall
    /\ UNCHANGED <<db, debug, enqueues, cache_vars, cluster_vars>>

\* The terminal transaction commits.
CommitBatch ==
    /\ pc = "committing"
    /\ db' = wtxn
    /\ wtxn' = EmptyDb
    /\ pc' = "idle"
    /\ pb' = NoBatch
    /\ ids' = {}
    /\ call' = NoCall
    /\ UNCHANGED <<file_store, now, debug, enqueues, cache_vars, cluster_vars>>

\* The process dies while a batch is in flight: RAM and the open
\* transaction are lost.  (A crash of an idle process loses nothing.)
Crash ==
    /\ pc \in {"processing", "committing", "panicked"}
    /\ pc' = "down"
    /\ pb' = NoBatch
    /\ ids' = {}
    /\ wtxn' = EmptyDb
    /\ call' = NoCall
    /\ UNCHANGED <<db, file_store, now, debug, enqueues, cache_vars, cluster_vars>>

\* The process restarts and runs the startup recovery pass.
Recover ==
    /\ pc = "down"
    /\ db' = recover(db, db.status["Processing"])
    /\ pc' = "idle"
    /\ call' = NoCall
    /\ UNCHANGED <<file_store, now, debug, pb, ids, wtxn, enqueues,
                 cache_vars, cluster_vars>>

Next ==
    \/ Enqueue
    \/ ClaimBatch
    \/ FinishBatch
    \/ CommitBatch
    \/ Crash
    \/ Recover

Spec == Init /\ [][Next]_vars


\* ------------------------------------------- the task store, called directly
\* The kinds enqueued when the store is exercised directly.
StoreKinds(file) ==
    {DocumentAdditionOrUpdate(i, file) : i \in IF file = 0 THEN {"a"} ELSE Indexes}

\* The clock stands still here: the calls below leave the timestamps alone.
EnqueueStore == EnqueueOf(StoreKinds(Len(enqueues)), {now})

\* update_task with a stored task whose status or kind the caller changed;
\* the caller set batch_uid as ProcessingBatch does.  One write
\* transaction, committed when the call returns Ok.
UpdateStatusCall ==
    /\ \E u \in DOMAIN db.all_tasks, s \in Statuses \cup {"clear"} :
          LET old == get_task(db, u)
              task == IF s = "clear"
                      THEN [old EXCEPT !.batch_uid = 0,
                               !.kind = DocumentClear(old.kind.index_uid)]
                      ELSE [old EXCEPT !.batch_uid = 0, !.status = s]
              r == update_task(db, task, debug)
          IN  /\ r.res = "ok"
              /\ db' = r.db
    /\ call' = NoCall
    /\ UNCHANGED <<file_store, now, debug, pc, pb, ids, wtxn, enqueues,
                 cache_vars, cluster_vars>>

\* swap_index_uid_in_task on a stored task, the rewritten task stored with
\* update_task.
SwapCall ==
    /\ \E u \in DOMAIN db.all_tasks :
          LET task == swap_index_uid_in_task(get_task(db, u), "a", "b")
              r == update_task(db, task, debug)
          IN  /\ r.res = "ok"
              /\ db' = r.db
    /\ call' = NoCall
    /\ UNCHANGED <<file_store, now, debug, pc, pb, ids, wtxn, enqueues,
                 cache_vars, cluster_vars>>

NextStore ==
    \/ EnqueueStore
    \/ UpdateStatusCall
    \/ SwapCall

SpecStore == Init /\ [][NextStore]_vars

\* ------------------------------------------- the sanity check of update_task
\* A stored task with one field changed by the caller.
Edits(old) ==
    {[old EXCEPT !.uid = v] : v \in 0..(MaxTasks - 1)}
    \cup {[old EXCEPT !.enqueued_at = v] : v \in Times}
    \cup {[old EXCEPT !.started_at = v] : v \in Times \cup {None}}
    \cup {[old EXCEPT !.finished_at = v] : v \in Times \cup {None}}

\* update_task with an edited task, batch_uid set as ProcessingBatch does;
\* `call` records the uid of the task the caller loaded, the task it passed
\* and how the call ended.  The transaction commits only on Ok.
SanityCall ==
    /\ \E u \in DOMAIN db.all_tasks :
         \E edit \in Edits(get_task(db, u)) \ {get_task(db, u)} :
          LET task == [edit EXCEPT !.batch_uid = 0]
              r == update_task(db, task, debug)
          IN  /\ call' = [uid |-> u, res |-> r.res, task |-> task]
              /\ db' = IF r.res = "ok" THEN r.db ELSE db
    /\ UNCHANGED <<file_store, now, debug, pc, pb, ids, wtxn, enqueues,
                 cache_vars, cluster_vars>>

EnqueueSanity == EnqueueOf(StoreKinds(Len(enqueues)), Clock)

NextSanity ==
    \/ EnqueueSanity
    \/ SanityCall

SpecSanity == Init /\ [][NextSanity]_vars


\* ------------------------------------- cancelations and deletions of any task
\* One more task than elsewhere is enqueued here, so that a task can be
\* canceled and the cancelation task deleted afterwards.
MaxQueue == MaxTasks + 1

\* The kinds enqueued: document additions on one index, and cancelations and
\* deletions that target any set of uids.
CancelKinds(file) ==
    {DocumentAdditionOrUpdate("a", file)}
    \cup {TaskCancelation(ts) : ts \in SUBSET (0..(MaxQueue - 1)) \ {{}}}
    \cup {TaskDeletion(ts) : ts \in SUBSET (0..(MaxQueue - 1)) \ {{}}}

EnqueueCancel == EnqueueWithin(CancelKinds(Len(enqueues)), {now}, MaxQueue)

NextCancel ==
    \/ EnqueueCancel
    \/ ClaimBatch
    \/ FinishBatch
    \/ CommitBatch

SpecCancel == Init /\ [][NextCancel]_vars

\* ------------------------------------------- index creations and updates
\* Clients create and update indexes; the first task names "a".
IndexKinds(first) ==
    {IndexCreation(i) : i \in IF first THEN {"a"} ELSE Indexes}
    \cup {IndexUpdate(i) : i \in IF first THEN {"a"} ELSE Indexes}

EnqueueIndex == EnqueueWithin(IndexKinds(enqueues = <<>>), {now}, MaxTasks)

NextIndex ==
    \/ EnqueueIndex
    \/ ClaimBatch
    \/ FinishBatch
    \/ CommitBatch

\* The processor is woken whenever work is pending and a tick runs to its
\* end when the process does not die.
\* Weak fairness of each step of the tick, WF_vars(A) with ENABLED <<A>>_vars
\* written out: a step that stays possible is taken.
TickFairness ==
    /\ []<>(~(pc = "idle" /\ next_batch(db) # {})) \/ []<><<ClaimBatch>>_vars
    /\ []<>(pc # "processing") \/ []<><<FinishBatch>>_vars
    /\ []<>(pc # "committing") \/ []<><<CommitBatch>>_vars

SpecIndex == Init /\ [][NextIndex]_vars /\ TickFairness


\* ------------------------------------------- the functions on a single task
\* The longest list of pairs of an index swap.
MaxSwaps == 2

\* The index names of the swaps: one more than the indexes of the queue, so
\* that two pairs can share one name and differ in the others.
SwapNames == Indexes \cup {"c"}

\* The lists of at most MaxSwaps pairs of index names.
SwapLists ==
    UNION {[1..n -> SwapNames \X SwapNames] : n \in 0..MaxSwaps}

\* The uids a task's target set can hold: the uid of the task, older and
\* newer ones.
TargetUids == 0..(MaxTasks + 1)

\* The tasks filter_out_references_to_newer_tasks is called with: any uid
\* and any target set; the details are absent (assert_internally_consistent
\* accepts a task without details) or of the variant of the kind, with any
\* counter.
FilterTasks ==
    {[new_task(uid, kind, 0) EXCEPT
         !.details = IF n = None THEN NoDetails
                     ELSE [default_details(kind) EXCEPT
                              !.matched_tasks = IF @ = None THEN @ ELSE n]] :
        uid \in 0..MaxTasks,
        kind \in {TaskCancelation(ts) : ts \in SUBSET TargetUids}
                 \cup {TaskDeletion(ts) : ts \in SUBSET TargetUids}
                 \cup {DocumentAdditionOrUpdate("a", 0),
                       IndexSwap(<<<<"a", "b">>>>)},
        n \in {None} \cup 0..(MaxTasks + 2)}

\* The tasks swap_index_uid_in_task and check_index_swap_validity are
\* called with: their details are the default ones of the kind, or absent.
SwapTasks ==
    {[new_task(0, kind, 0) EXCEPT
         !.details = IF some THEN default_details(kind) ELSE NoDetails] :
        kind \in {DocumentAdditionOrUpdate(i, 0) : i \in SwapNames}
                 \cup {DocumentClear(i) : i \in SwapNames}
                 \cup {IndexSwap(swaps) : swaps \in SwapLists}
                 \cup {TaskCancelation({0})},
        some \in BOOLEAN}

\* The value of `call` after a function was called: its name, its argument
\* and its result (`with` holds the other arguments).  A function is
\* called on a fresh input, or on the result of the call before.
Called(fn, arg, with, res) ==
    [fn |-> fn, arg |-> arg, with |-> with, res |-> res]

\* filter_out_references_to_newer_tasks on a task.
FilterCall ==
    /\ call = NoCall
    /\ \E task \in FilterTasks :
          call' = Called("filter_out_references_to_newer_tasks", task, <<>>,
                         filter_out_references_to_newer_tasks(task))
    /\ UNCHANGED <<db, file_store, now, debug, pc, pb, ids, wtxn, enqueues,
                 cache_vars, cluster_vars>>

\* filter_out_references_to_newer_tasks on the task the last call returned;
\* `with` keeps the task the first call was given.
FilterAgainCall ==
    /\ "fn" \in DOMAIN call
    /\ call.fn = "filter_out_references_to_newer_tasks"
    /\ call' = Called("filter_out_references_to_newer_tasks twice", call.res,
                      <<call.arg>>,
                      filter_out_references_to_newer_tasks(call.res))
    /\ UNCHANGED <<db, file_store, now, debug, pc, pb, ids, wtxn, enqueues,
                 cache_vars, cluster_vars>>

\* check_index_swap_validity on a task.
SwapValidityCall ==
    /\ call = NoCall
    /\ \E task \in SwapTasks :
          call' = Called("check_index_swap_validity", task, <<>>,
                         check_index_swap_validity(task))
    /\ UNCHANGED <<db, file_store, now, debug, pc, pb, ids, wtxn, enqueues,
                 cache_vars, cluster_vars>>

\* swap_index_uid_in_task on a task and a pair of names.
SwapIndexCall ==
    /\ call = NoCall
    /\ \E task \in SwapTasks, lhs \in SwapNames, rhs \in SwapNames :
          call' = Called("swap_index_uid_in_task", task, <<lhs, rhs>>,
                         swap_index_uid_in_task(task, lhs, rhs))
    /\ UNCHANGED <<db, file_store, now, debug, pc, pb, ids, wtxn, enqueues,
                 cache_vars, cluster_vars>>

NextFn ==
    \/ FilterCall
    \/ FilterAgainCall
    \/ SwapValidityCall
    \/ SwapIndexCall

SpecFn == Init /\ [][NextFn]_vars

\* ------------------------------------------------- the time filter of a query
\* keep_ids_within_datetimes on the enqueued_at table of the store, with any
\* bitmap and any bounds.
KeepIdsCall ==
    /\ call = NoCall
    /\ \E uids \in SUBSET (0..(MaxTasks - 1)),
          after \in Times \cup {None}, before \in Times \cup {None} :
          call' = Called("keep_ids_within_datetimes", uids, <<after, before>>,
                         keep_ids_within_datetimes(uids, db.enqueued_at,
                                                   after, before))
    /\ UNCHANGED <<db, file_store, now, debug, pc, pb, ids, wtxn, enqueues,
                 cache_vars, cluster_vars>>

NextQuery ==
    \/ EnqueueSanity
    \/ KeepIdsCall

SpecQuery == Init /\ [][NextQuery]_vars


\* ------------------------------------------------------ the extraction cache
MaxInserts == 2     \* number of insert calls in a behaviour
MaxId == 1          \* document ids are 1..MaxId
MaxKey == 3         \* keys are 1..MaxKey, ordered as the byte strings are
\* The numbers of extractor threads, each with its own cache.
ThreadCounts == 0..2
\* What the bump allocator may report as allocated_bytes.
AllocatedBytes == 0..1
\* The `buckets` every cache is created with.
Buckets == 2

CacheKeys == 1..MaxKey
DocIds == 1..MaxId
Sides == {"del", "add"}

\* Option<bitmap>: None, Some(S), and the set an option stands for.
NoBitmap == <<>>
SomeBitmap(S) == <<S>>
bitmap_of(option) == IF option = NoBitmap THEN {} ELSE option[1]

\* DelAddBbbul / FrozenDelAddBbbul / DelAddRoaringBitmap { del, add }.
DelAdd(del, add) == [del |-> del, add |-> add]

\* DelAddRoaringBitmap::empty.
DelAddRoaringBitmap_empty == DelAdd(NoBitmap, NoBitmap)

\* new_del_u32 / new_add_u32 (and new_del_u32_in / new_add_u32_in).
new_del_u32(n) == DelAdd(SomeBitmap({n}), NoBitmap)
new_add_u32(n) == DelAdd(NoBitmap, SomeBitmap({n}))
new_u32(side, n) == IF side = "del" THEN new_del_u32(n) ELSE new_add_u32(n)

\* deladd.<side>.get_or_insert_with(..).insert(n).
get_or_insert(deladd, side, n) ==
    [deladd EXCEPT ![side] = SomeBitmap(bitmap_of(@) \cup {n})]

\* FrozenDelAddBbbul::is_empty.
is_empty(bbbul) == bbbul.del = NoBitmap /\ bbbul.add = NoBitmap

\* hasher.hash_one(key): a fixed function of the key, the same in every
\* cache.
hash_one(key) == (key * 5) % 8

compute_bucket_from_hash(buckets, hash) == hash % buckets

\* NormalCaches::insert_del_u32 / insert_add_u32 on the maps of a cache.
NormalCaches_insert(maps, buckets, side, key, n) ==
    LET bucket == compute_bucket_from_hash(buckets, hash_one(key))
        cache == maps[bucket]
    IN  [maps EXCEPT ![bucket] =
            IF key \in DOMAIN cache
            THEN [cache EXCEPT ![key] = get_or_insert(@, side, n)]
            ELSE Put(cache, key, new_u32(side, n))]

\* The value spill_entry_to_sorter writes (KvWriterDelAdd): the sides that
\* are present, under DelAdd::Deletion and DelAdd::Addition.
KvWriterDelAdd(deladd) ==
    [tag \in {x \in {"Deletion", "Addition"} :
                 IF x = "Deletion" THEN deladd.del # NoBitmap
                 ELSE deladd.add # NoBitmap}
        |-> IF tag = "Deletion" THEN deladd.del[1] ELSE deladd.add[1]]

\* DelAddRoaringBitmap::from_bytes.
from_bytes(bytes) ==
    DelAdd(IF "Deletion" \in DOMAIN bytes THEN SomeBitmap(bytes["Deletion"])
           ELSE NoBitmap,
           IF "Addition" \in DOMAIN bytes THEN SomeBitmap(bytes["Addition"])
           ELSE NoBitmap)

\* The merge function of the sorter: the union of each side.
MergeDeladdCboRoaringBitmaps(a, b) ==
    [tag \in DOMAIN a \cup DOMAIN b |->
        (IF tag \in DOMAIN a THEN a[tag] ELSE {})
        \cup (IF tag \in DOMAIN b THEN b[tag] ELSE {})]

\* grenad::Sorter::insert.  A sorter is the sequence of its sorted chunks,
\* each a map from keys to values; the entry joins the last chunk, merged
\* with the value the chunk has for the key, or, when `chunk`, starts a new
\* one: where the sorter cuts its chunks is not the caller's choice.
Sorter_insert(sorter, key, bytes, chunk) ==
    IF sorter = <<>> \/ chunk THEN Append(sorter, key :> bytes)
    ELSE LET last == sorter[Len(sorter)]
         IN  [sorter EXCEPT ![Len(sorter)] =
                 IF key \in DOMAIN last
                 THEN [last EXCEPT ![key] = MergeDeladdCboRoaringBitmaps(@, bytes)]
                 ELSE Put(last, key, bytes)]

spill_entry_to_sorter(spilled_entries, key, deladd, chunk) ==
    IF is_empty(deladd) THEN spilled_entries
    ELSE Sorter_insert(spilled_entries, key, KvWriterDelAdd(deladd), chunk)

\* Mutation of the SpillingCaches inserts: a key that is not resident is
\* spilled to the sorter of the first bucket.
SpillingCaches_insert_first_bucket(spilling, buckets, side, key, n, chunk) ==
    LET bucket == compute_bucket_from_hash(buckets, hash_one(key))
    IN  IF key \in DOMAIN spilling.caches[bucket]
        THEN [spilling EXCEPT !.caches[bucket][key] = get_or_insert(@, side, n)]
        ELSE [spilling EXCEPT !.spilled_entries[0] =
                 spill_entry_to_sorter(@, key, new_u32(side, n), chunk)]

\* SpillingCaches::insert_del_u32 / insert_add_u32.
SpillingCaches_insert(spilling, buckets, side, key, n, chunk) ==
    LET bucket == compute_bucket_from_hash(buckets, hash_one(key))
    IN  IF key \in DOMAIN spilling.caches[bucket]
        THEN [spilling EXCEPT !.caches[bucket][key] = get_or_insert(@, side, n)]
        ELSE [spilling EXCEPT !.spilled_entries[bucket] =
                 spill_entry_to_sorter(@, key, new_u32(side, n), chunk)]

\* BalancedCaches::new_in.  A cache is its threshold, its mode, the map of
\* each bucket and, in Spilling mode, the sorter of each bucket.
new_in(buckets, max_memory) ==
    [max_memory |-> max_memory,
     mode |-> "Normal",
     caches |-> [b \in 0..(buckets - 1) |-> <<>>],
     spilled_entries |-> [b \in 0..(buckets - 1) |-> <<>>]]

\* BalancedCaches::buckets.
buckets_of(cache) == Cardinality(DOMAIN cache.caches)

\* BalancedCaches::start_spilling (SpillingCaches::from_cache_maps keeps the
\* maps and creates one empty sorter per bucket).
start_spilling(cache) ==
    IF cache.mode = "Normal"
    THEN [cache EXCEPT !.mode = "Spilling",
                       !.spilled_entries = [b \in DOMAIN cache.caches |-> <<>>]]
    ELSE cache

\* Mutation of the threshold test: allocated_bytes > max_memory.
memory_exhausted_strict(cache, allocated_bytes) ==
    cache.max_memory # None /\ allocated_bytes > cache.max_memory

\* max_memory.map_or(false, |mm| alloc.allocated_bytes() >= mm).
memory_exhausted(cache, allocated_bytes) ==
    cache.max_memory # None /\ allocated_bytes >= cache.max_memory

\* Mutation of insert_u32: a key unknown to a spilling cache is spilled and
\* made resident as well.
insert_u32_resident(cache, side, key, n, allocated_bytes, chunk) ==
    LET c == IF memory_exhausted(cache, allocated_bytes)
             THEN start_spilling(cache) ELSE cache
    IN  IF c.mode = "Normal"
        THEN [c EXCEPT !.caches =
                 NormalCaches_insert(@, buckets_of(c), side, key, n)]
        ELSE [SpillingCaches_insert(c, buckets_of(c), side, key, n, chunk)
                 EXCEPT !.caches =
                     NormalCaches_insert(@, buckets_of(c), side, key, n)]

\* BalancedCaches::insert_del_u32 / insert_add_u32, `allocated_bytes` being
\* what the bump allocator reports when the call starts.
insert_u32(cache, side, key, n, allocated_bytes, chunk) ==
    LET c == IF memory_exhausted(cache, allocated_bytes)
             THEN start_spilling(cache) ELSE cache
    IN  IF c.mode = "Normal"
        THEN [c EXCEPT !.caches =
                 NormalCaches_insert(@, buckets_of(c), side, key, n)]
        ELSE SpillingCaches_insert(c, buckets_of(c), side, key, n, chunk)

\* sorter.into_reader_cursors(): one reader per chunk, its entries in
\* ascending key order.
into_reader_cursors(sorter) ==
    [i \in 1..Len(sorter) |->
        LET keys == SetToSeq(DOMAIN sorter[i])
        IN  [j \in 1..Len(keys) |-> <<keys[j], sorter[i][keys[j]]>>]]

\* BalancedCaches::freeze: one FrozenCache per bucket, in bucket order.
freeze(cache) ==
    [b \in DOMAIN cache.caches |->
        [bucket |-> b,
         cache |-> cache.caches[b],
         spilled |-> IF cache.mode = "Normal" THEN <<>>
                     ELSE into_reader_cursors(cache.spilled_entries[b])]]

\* Mutation of transpose_and_freeze_caches: the frozen caches of a thread
\* are pushed in the group of the thread's rank.
transpose_and_freeze_caches_by_thread(thread_caches) ==
    LET width == IF thread_caches = <<>> THEN 0 ELSE buckets_of(thread_caches[1])
        group(g) ==
            IF g + 1 \in DOMAIN thread_caches
            THEN LET f == freeze(thread_caches[g + 1])
                     bs == SetToSeq(DOMAIN f)
                 IN  [i \in 1..Len(bs) |-> f[bs[i]]]
            ELSE <<>>
    IN  IF Len(thread_caches) > width
        THEN [res |-> "panic", groups |-> <<>>]
        ELSE [res |-> "ok", groups |-> [g \in 0..(width - 1) |-> group(g)]]

\* transpose_and_freeze_caches: bucket_caches[frozen.bucket].push(frozen) for
\* every frozen cache of every thread, in thread order; "panic" when a
\* bucket id is not below the width.
transpose_and_freeze_caches(thread_caches) ==
    LET width == IF thread_caches = <<>> THEN 0 ELSE buckets_of(thread_caches[1])
        frozens == [t \in DOMAIN thread_caches |-> freeze(thread_caches[t])]
        pushed(b) == {<<t, x>> \in UNION {{t} \X DOMAIN frozens[t] : t \in DOMAIN frozens} :
                         frozens[t][x].bucket = b}
        RECURSIVE in_order(_)
        in_order(S) ==
            IF S = {} THEN <<>>
            ELSE LET first == CHOOSE p \in S : \A q \in S :
                                 p[1] < q[1] \/ (p[1] = q[1] /\ p[2] <= q[2])
                 IN  <<frozens[first[1]][first[2]]>> \o in_order(S \ {first})
    IN  IF \E t \in DOMAIN frozens : \E x \in DOMAIN frozens[t] :
               frozens[t][x].bucket >= width
        THEN [res |-> "panic", groups |-> <<>>]
        ELSE [res |-> "ok",
              groups |-> [b \in 0..(width - 1) |-> in_order(pushed(b))]]

\* Mutation of merge: when both sides are present the left one is kept.
merge_keep_left(self, rhs) ==
    LET side(a, b) == IF a = NoBitmap THEN b ELSE a
    IN  DelAdd(side(self.del, rhs.del), side(self.add, rhs.add))

\* DelAddRoaringBitmap::merge.
merge(self, rhs) ==
    LET side(a, b) == IF a = NoBitmap THEN b
                      ELSE IF b = NoBitmap THEN a
                      ELSE SomeBitmap(a[1] \cup b[1])
    IN  DelAdd(side(self.del, rhs.del), side(self.add, rhs.add))

\* DelAddRoaringBitmap::union_and_clear_bbbul: the bitmap after the union
\* and the in-memory entry, both sides taken.
union_and_clear_bbbul(self, bbbul) ==
    LET side(a, b) == IF b = NoBitmap THEN a ELSE SomeBitmap(bitmap_of(a) \cup b[1])
    IN  [output |-> DelAdd(side(self.del, bbbul.del), side(self.add, bbbul.add)),
         bbbul |-> DelAdd(NoBitmap, NoBitmap)]

\* cursor.current() of a heap entry: the <<key, value>> its reader is on.
current(readers, entry) == readers[entry.source_index][entry.pos]

\* BinaryHeap::pop / peek_mut under CursorEntry::cmp (reversed): the entry
\* with the least key, then the least source index.
heap_peek(readers, heap) ==
    CHOOSE e \in heap : \A f \in heap :
        \/ current(readers, e)[1] < current(readers, f)[1]
        \/ /\ current(readers, e)[1] = current(readers, f)[1]
           /\ e.source_index <= f.source_index

\* Mutation of move_on_next: a cursor on the last entry of its reader stays
\* on it.
move_on_next_stay(readers, entry) ==
    IF entry.pos < Len(readers[entry.source_index])
    THEN {[entry EXCEPT !.pos = @ + 1]} ELSE {entry}

\* cursor.move_on_next(): the entry to put back in the heap, if any.
move_on_next(readers, entry) ==
    IF entry.pos < Len(readers[entry.source_index])
    THEN {[entry EXCEPT !.pos = @ + 1]} ELSE {}

RECURSIVE merge_equal_keys(_, _, _, _, _)
\* The inner loop of merge_caches_sorted (lines 494-508): while the top of
\* the heap is on first_key, merge and move that entry forward.
merge_equal_keys(readers, heap, first_key, first_value, output) ==
    IF heap = {} THEN [heap |-> heap, output |-> output]
    ELSE LET entry == heap_peek(readers, heap)
         IN  IF current(readers, entry)[1] = first_key
             THEN merge_equal_keys(readers,
                      (heap \ {entry}) \cup move_on_next(readers, entry),
                      first_key, first_value,
                      merge(output, from_bytes(first_value)))
             ELSE [heap |-> heap, output |-> output]

RECURSIVE union_from_maps(_, _, _, _, _)
\* for (map_index, map) in maps.iter_mut().enumerate(): the entry of `key`
\* in each map but the one of index `skip` is united in and cleared.
\* Indexes count from 1 here, readers' and maps' alike.
union_from_maps(maps, map_index, skip, key, output) ==
    IF map_index > Len(maps) THEN [maps |-> maps, output |-> output]
    ELSE IF map_index # skip /\ key \in DOMAIN maps[map_index]
    THEN LET u == union_and_clear_bbbul(output, maps[map_index][key])
         IN  union_from_maps([maps EXCEPT ![map_index][key] = u.bbbul],
                             map_index + 1, skip, key, u.output)
    ELSE union_from_maps(maps, map_index + 1, skip, key, output)

RECURSIVE spilled_entries_loop(_, _, _, _)
\* The first loop of merge_caches_sorted (lines 482-527), over the readers.
spilled_entries_loop(readers, heap, maps, calls) ==
    IF heap = {} THEN [maps |-> maps, calls |-> calls]
    ELSE LET first_entry == heap_peek(readers, heap)
             first_key == current(readers, first_entry)[1]
             first_value == current(readers, first_entry)[2]
             eq == merge_equal_keys(readers, heap \ {first_entry}, first_key,
                                    first_value, from_bytes(first_value))
             mem == union_from_maps(maps, 1, first_entry.source_index,
                                    first_key, eq.output)
         IN  spilled_entries_loop(readers,
                 eq.heap \cup move_on_next(readers, first_entry),
                 mem.maps, Append(calls, <<first_key, mem.output>>))

RECURSIVE map_entries_loop(_, _, _, _)
\* for (key, bbbul) in map.iter_mut() (lines 531-547), keys ascending.
map_entries_loop(map, keys, maps, calls) ==
    IF keys = <<>> THEN [maps |-> maps, calls |-> calls]
    ELSE IF is_empty(map[Head(keys)])
    THEN map_entries_loop(map, Tail(keys), maps, calls)
    ELSE LET own == union_and_clear_bbbul(DelAddRoaringBitmap_empty, map[Head(keys)])
             rhs == union_from_maps(maps, 1, None, Head(keys), own.output)
         IN  map_entries_loop(map, Tail(keys), rhs.maps,
                              Append(calls, <<Head(keys), rhs.output>>))

RECURSIVE maps_loop(_, _)
\* while let Some(mut map) = maps.pop() (lines 530-548).
maps_loop(maps, calls) ==
    IF maps = <<>> THEN calls
    ELSE LET map == maps[Len(maps)]
             rest == SubSeq(maps, 1, Len(maps) - 1)
             done == map_entries_loop(map, SetToSeq(DOMAIN map), rest, calls)
         IN  maps_loop(done.maps, done.calls)

\* merge_caches_sorted(frozen, f): "panic" when the bucket ids differ, else
\* the calls of f in order, each <<key, DelAddRoaringBitmap>>.
merge_caches_sorted(frozen_caches) ==
    LET RECURSIVE append_spilled(_)
        append_spilled(i) ==
            IF i > Len(frozen_caches) THEN <<>>
            ELSE frozen_caches[i].spilled \o append_spilled(i + 1)
        readers == append_spilled(1)
        maps == [i \in 1..Len(frozen_caches) |-> frozen_caches[i].cache]
        heap == {[source_index |-> s, pos |-> 1] :
                    s \in {r \in 1..Len(readers) : readers[r] # <<>>}}
        spilled == spilled_entries_loop(readers, heap, maps, <<>>)
    IN  IF \E i \in 1..Len(frozen_caches) :
               frozen_caches[i].bucket # frozen_caches[1].bucket
        THEN [res |-> "panic", calls |-> <<>>]
        ELSE [res |-> "ok", calls |-> maps_loop(spilled.maps, spilled.calls)]

\* The thresholds a cache is created with: none, or a number of bytes.
MaxMemories == {None} \cup AllocatedBytes

\* An extraction starts: the caches of the threads are created.
InitCache ==
    /\ NoTasks
    /\ debug = FALSE
    /\ caches \in UNION {[1..T -> {new_in(Buckets, mm) : mm \in MaxMemories}] :
                            T \in ThreadCounts}
    /\ inserted = {}
    /\ frozen = NoGroups
    /\ emitted = <<>>
    /\ NoCluster

sched_vars == <<db, file_store, now, debug, pc, pb, ids, wtxn, enqueues, call>>

\* How many times the pair was inserted on the side by the thread.
Times_inserted(t, side, key, n) ==
    Cardinality({e \in inserted : <<e[1], e[2], e[3], e[4]>> = <<t, side, key, n>>})

\* An extractor thread inserts a document id under a key, on one side.
InsertCall ==
    /\ frozen = NoGroups
    /\ Cardinality(inserted) < MaxInserts
    /\ \E t \in DOMAIN caches, side \in Sides, key \in CacheKeys, n \in DocIds :
       \E allocated_bytes \in AllocatedBytes, chunk \in BOOLEAN :
          /\ caches' = [caches EXCEPT ![t] =
                 insert_u32(@, side, key, n, allocated_bytes, chunk)]
          /\ inserted' = inserted \cup
                 {<<t, side, key, n, Times_inserted(t, side, key, n) + 1>>}
    /\ UNCHANGED <<frozen, emitted, sched_vars, cluster_vars>>

\* The extraction is over: the caches are frozen and transposed.
FreezeCall ==
    /\ frozen = NoGroups
    /\ frozen' = transpose_and_freeze_caches(caches)
    /\ UNCHANGED <<caches, inserted, emitted, sched_vars, cluster_vars>>

\* Every group is merged, each by its own merger.
MergeCall ==
    /\ frozen.res = "ok"
    /\ emitted = <<>>
    /\ frozen.groups # <<>>
    /\ emitted' = [b \in DOMAIN frozen.groups |->
                      merge_caches_sorted(frozen.groups[b])]
    /\ UNCHANGED <<caches, inserted, frozen, sched_vars, cluster_vars>>

NextCache ==
    \/ InsertCall
    \/ FreezeCall
    \/ MergeCall

SpecCache == InitCache /\ [][NextCache]_vars


\* --------------------------------------------- the merge of two bitmap pairs
\* The values an Option<RoaringBitmap> side can have.
Bitmaps == {NoBitmap} \cup {SomeBitmap(S) : S \in SUBSET DocIds}

\* Every DelAddRoaringBitmap over the document ids.
DelAddValues == {DelAdd(del, add) : del \in Bitmaps, add \in Bitmaps}

\* DelAddRoaringBitmap::merge on any two values.
DelAddMergeCall ==
    /\ call = NoCall
    /\ \E self \in DelAddValues, rhs \in DelAddValues :
           call' = Called("merge", self, <<rhs>>, merge(self, rhs))
    /\ UNCHANGED <<db, file_store, now, debug, pc, pb, ids, wtxn, enqueues,
                 cache_vars, cluster_vars>>

\* The result is merged with a third value.
DelAddMergeAgainCall ==
    /\ call # NoCall
    /\ call.fn = "merge"
    /\ Len(call.with) = 1
    /\ \E rhs \in DelAddValues :
           call' = Called("merge", call.arg, Append(call.with, rhs),
                          merge(call.res, rhs))
    /\ UNCHANGED <<db, file_store, now, debug, pc, pb, ids, wtxn, enqueues,
                 cache_vars, cluster_vars>>

NextMerge ==
    \/ DelAddMergeCall
    \/ DelAddMergeAgainCall

SpecMerge == Init /\ [][NextMerge]_vars

\* ------------------------------------------- a bitmap pair applied to a bitmap
\* Document ids for apply_to: more ids than a pair mentions.
WideIds == 0..(MaxId + 1)

\* Every DelAddRoaringBitmap over the wide ids.
WideDelAddValues ==
    {DelAdd(del, add) :
        del \in {NoBitmap} \cup {SomeBitmap(S) : S \in SUBSET WideIds},
        add \in {NoBitmap} \cup {SomeBitmap(S) : S \in SUBSET WideIds}}

\* Mutation of apply_to: the additions are applied first.
apply_to_add_first(self, documents_ids) ==
    LET added == IF self.add # NoBitmap THEN documents_ids \cup self.add[1]
                 ELSE documents_ids
    IN  IF self.del # NoBitmap THEN added \ self.del[1] ELSE added

\* DelAddRoaringBitmap::apply_to: documents_ids afterwards.
apply_to(self, documents_ids) ==
    LET deleted == IF self.del # NoBitmap THEN documents_ids \ self.del[1]
                   ELSE documents_ids
    IN  IF self.add # NoBitmap THEN deleted \cup self.add[1] ELSE deleted

\* DelAddRoaringBitmap::apply_to on any pair and any bitmap.
ApplyToCall ==
    /\ call = NoCall
    /\ \E self \in WideDelAddValues, documents_ids \in SUBSET WideIds :
           call' = Called("apply_to", self, documents_ids,
                          apply_to(self, documents_ids))
    /\ UNCHANGED <<db, file_store, now, debug, pc, pb, ids, wtxn, enqueues,
                 cache_vars, cluster_vars>>

NextApply ==
    \/ ApplyToCall

SpecApply == Init /\ [][NextApply]_vars

\* ------------------------------------------- packed attributes and word areas
\* assert!(attribute & 0b1111_1100_0000_0000 == 0) and the same for length.
HighBitsOfU16 == 64512
\* assert!(index & 0b1111_1111_1100_0000_0000_0000_0000 == 0) and the same
\* for byte_index.
HighBitsOfIndex == 268173312
\* self.0 & 0b0000_0000_0011_1111_1111_1111_1111 in word_index.
WordIndexBits == 262143
\* self.0 & 0b0000_0000_0000_0000_0011_1111_1111 in length.
LengthBits == 1023

RECURSIVE bit_and(_, _)
\* x & y on unsigned integers.
bit_and(x, y) ==
    IF x = 0 \/ y = 0 THEN 0
    ELSE (IF x % 2 = 1 /\ y % 2 = 1 THEN 1 ELSE 0)
         + 2 * bit_and(x \div 2, y \div 2)

RECURSIVE bit_or(_, _)
\* x | y on unsigned integers.
bit_or(x, y) ==
    IF x = 0 THEN y
    ELSE IF y = 0 THEN x
    ELSE (IF x % 2 = 1 \/ y % 2 = 1 THEN 1 ELSE 0)
         + 2 * bit_or(x \div 2, y \div 2)

\* A u32 as its high and low 16 bits, so that no value leaves the integers
\* the checker computes with.
U32(n) == <<n \div 2^16, n % 2^16>>

\* x & y and x | y on u32.
and32(x, y) == <<bit_and(x[1], y[1]), bit_and(x[2], y[2])>>
or32(x, y) == <<bit_or(x[1], y[1]), bit_or(x[2], y[2])>>

\* x << k on u32, for 0 < k < 32: the bits shifted out are lost.
shl32(x, k) ==
    IF k >= 16
    THEN <<(x[2] % 2^(32 - k)) * 2^(k - 16), 0>>
    ELSE <<(x[1] % 2^(16 - k)) * 2^k + x[2] \div 2^(16 - k),
           (x[2] % 2^(16 - k)) * 2^k>>

\* x >> k on u32, for 0 < k < 32.
shr32(x, k) ==
    IF k >= 16
    THEN <<0, x[1] \div 2^(k - 16)>>
    ELSE <<x[1] \div 2^k, (x[1] % 2^k) * 2^(16 - k) + x[2] \div 2^k>>

\* The derived order of Attribute and WordArea: the order of the u32.
lt32(x, y) == x[1] < y[1] \/ (x[1] = y[1] /\ x[2] < y[2])

\* The outcome of a constructor: the packed u32, or a failed assertion.
Packed(value) == [ok |-> TRUE, value |-> value]
Panicked == [ok |-> FALSE, value |-> U32(0)]

\* Attribute::new on a u16 and a u32.
Attribute_new(attr, index) ==
    IF \/ bit_and(attr, HighBitsOfU16) # 0
       \/ and32(U32(index), U32(HighBitsOfIndex)) # U32(0)
    THEN Panicked
    ELSE Packed(or32(shl32(U32(attr), 22), U32(index)))

\* Attribute::attribute: (self.0 >> 22) as u16.
attribute(self) == shr32(self, 22)[2]

\* Attribute::word_index.
word_index(self) == and32(self, U32(WordIndexBits))

\* WordArea::new on a u32 and a u16.
WordArea_new(byte, len) ==
    IF \/ and32(U32(byte), U32(HighBitsOfIndex)) # U32(0)
       \/ bit_and(len, HighBitsOfU16) # 0
    THEN Panicked
    ELSE Packed(or32(shl32(U32(byte), 10), U32(len)))

\* WordArea::byte_index.
byte_index(self) == shr32(self, 10)

\* WordArea::length: (self.0 & ..) as u16.
length(self) == and32(self, U32(LengthBits))[2]

\* The u16 and u32 arguments tried: the ends of the types and both sides of
\* each limit.
U16Samples == {0, 1, 2, 2^10 - 1, 2^10, 2^10 + 1, 2^16 - 1}
U32Samples == {0, 1, 2, 2^18 - 1, 2^18, 2^18 + 1, 2^22 - 1, 2^22, 2^22 + 1,
               2^28, 2^30}

\* Attribute::new on an attribute number and a word index.
AttributeCall ==
    /\ call = NoCall
    /\ \E attr \in U16Samples, index \in U32Samples :
           call' = Called("Attribute::new", attr, index,
                          Attribute_new(attr, index))
    /\ UNCHANGED <<db, file_store, now, debug, pc, pb, ids, wtxn, enqueues,
                 cache_vars, cluster_vars>>

\* WordArea::new on a byte index and a length.
WordAreaCall ==
    /\ call = NoCall
    /\ \E byte \in U32Samples, len \in U16Samples :
           call' = Called("WordArea::new", byte, len, WordArea_new(byte, len))
    /\ UNCHANGED <<db, file_store, now, debug, pc, pb, ids, wtxn, enqueues,
                 cache_vars, cluster_vars>>

NextPacked ==
    \/ AttributeCall
    \/ WordAreaCall

SpecPacked == Init /\ [][NextPacked]_vars

\* --------------------------------------------- the versions of a document
MaxFields == 3      \* number of top-level fields of a document

RESERVED_VECTORS_FIELD_NAME == "_vectors"

\* Top-level field names and raw values.
FieldNames == {RESERVED_VECTORS_FIELD_NAME, "_geo", "id", "title"}
RawValues == {1, 2}

\* RawMap: the entries <<name, value>> in insertion order, no name twice.
RawMaps ==
    {version \in UNION {[1..n -> FieldNames \X RawValues] : n \in 0..MaxFields} :
        \A i, j \in DOMAIN version : version[i][1] = version[j][1] => i = j}

\* RawMap::get_index: the position of the key in the entries (from 1 here),
\* or None.
get_index(version, name) ==
    IF \E i \in DOMAIN version : version[i][1] = name
    THEN CHOOSE i \in DOMAIN version : version[i][1] = name
    ELSE None

\* Vec::remove(index): the element there and the vector without it, the
\* later elements shifted left; a panic when index is out of bounds.
remove(data, index) ==
    IF index \notin DOMAIN data
    THEN [res |-> "panic", removed |-> None, data |-> data]
    ELSE [res |-> "ok", removed |-> data[index][2],
          data |-> SubSeq(data, 1, index - 1) \o SubSeq(data, index + 1, Len(data))]

\* Versions::single.
single(version) ==
    LET vectors_id == get_index(version, RESERVED_VECTORS_FIELD_NAME)
        geo_id == get_index(version, "_geo")
        geo == IF geo_id # None THEN remove(version, geo_id)
               ELSE [res |-> "ok", removed |-> None, data |-> version]
        vectors == IF vectors_id # None THEN remove(geo.data, vectors_id)
                   ELSE [res |-> "ok", removed |-> None, data |-> geo.data]
    IN  IF geo.res = "panic" \/ vectors.res = "panic"
        THEN [res |-> "panic", data |-> <<>>, geo |-> None, vectors |-> None]
        ELSE [res |-> "ok", data |-> vectors.data,
              geo |-> geo.removed, vectors |-> vectors.removed]

\* Versions::iter_top_level_fields, vectors_field, geo_field.
iter_top_level_fields(self) == self.data
vectors_field(self) == self.vectors
geo_field(self) == self.geo

\* Versions::single on any map.
SingleCall ==
    /\ call = NoCall
    /\ \E version \in RawMaps :
           call' = Called("Versions::single", version, <<>>, single(version))
    /\ UNCHANGED <<db, file_store, now, debug, pc, pb, ids, wtxn, enqueues,
                 cache_vars, cluster_vars>>

NextDocument ==
    \/ SingleCall

SpecDocument == Init /\ [][NextDocument]_vars

\* ------------------------------------------- the loops of merge_caches_sorted
\* merge_caches_sorted one loop iteration at a time.  `frozen` holds the
\* group the merger was given, `call` the frame of the function (its
\* position and its locals) and `emitted` the calls of f so far.

LoopKeys == 0..1
ChunkCounts == 0..2
GroupSizes == 0..2

\* The frozen caches of one bucket a thread can hand over: the keys of its
\* map are not in its sorter, whose chunks are not empty.
FrozenCaches ==
    UNION {
        {[bucket |-> 0,
          cache |-> [key \in resident |-> new_add_u32(0)],
          spilled |-> into_reader_cursors(sorter)] :
            sorter \in UNION {[1..n -> {[key \in chunk |-> KvWriterDelAdd(new_add_u32(1))] :
                                           chunk \in (SUBSET (LoopKeys \ resident)) \ {{}}}] :
                                 n \in ChunkCounts}} :
        resident \in SUBSET LoopKeys}

FrozenGroups == UNION {[1..n -> FrozenCaches] : n \in GroupSizes}

\* No entry is out of the heap.
NoEntry == [source_index |-> 0, pos |-> 0]

NoFrame ==
    [fn |-> "merge_caches_sorted", pc |-> "start", readers |-> <<>>,
     heap |-> {}, maps |-> <<>>, first_entry |-> NoEntry, output |-> None,
     drained |-> {}, visited |-> <<>>]

InitMergeLoop ==
    /\ db = EmptyDb
    /\ file_store = {}
    /\ now = 0
    /\ pc = "idle"
    /\ pb = NoBatch
    /\ ids = {}
    /\ wtxn = EmptyDb
    /\ enqueues = <<>>
    /\ debug = FALSE
    /\ caches = <<>>
    /\ inserted = {}
    /\ \E frozen_caches \in FrozenGroups :
           frozen = [res |-> "ok", groups |-> [b \in {0} |-> frozen_caches]]
    /\ emitted = <<>>
    /\ call = NoFrame
    /\ NoCluster

merge_loop_unchanged ==
    UNCHANGED <<db, file_store, now, debug, pc, pb, ids, wtxn, enqueues,
                caches, inserted, frozen, cluster_vars>>

\* Lines 465-480: the assertion on the bucket ids, the maps and the readers
\* are taken out of the frozen caches, and every reader that has a first
\* entry joins the heap.
StartMerge ==
    /\ call.pc = "start"
    /\ LET frozen_caches == frozen.groups[0]
           RECURSIVE append_spilled(_)
           append_spilled(i) ==
               IF i > Len(frozen_caches) THEN <<>>
               ELSE frozen_caches[i].spilled \o append_spilled(i + 1)
           readers == append_spilled(1)
       IN  call' = IF \E i \in 1..Len(frozen_caches) :
                         frozen_caches[i].bucket # frozen_caches[1].bucket
                   THEN [call EXCEPT !.pc = "panicked"]
                   ELSE [call EXCEPT
                            !.pc = "loop",
                            !.readers = readers,
                            !.maps = [i \in 1..Len(frozen_caches) |->
                                         frozen_caches[i].cache],
                            !.heap = UNION {move_on_next(readers,
                                                [source_index |-> s, pos |-> 0]) :
                                            s \in 1..Len(readers)},
                            !.drained = {s \in 1..Len(readers) : readers[s] = <<>>}]
    /\ UNCHANGED emitted
    /\ merge_loop_unchanged

\* Lines 482-493: the top of `loop`: heap.pop(), or the end of the loop
\* when the heap is empty.
HeapPop ==
    /\ call.pc = "loop"
    /\ call' = IF call.heap = {} THEN [call EXCEPT !.pc = "maps"]
               ELSE LET first_entry == heap_peek(call.readers, call.heap)
                    IN  [call EXCEPT
                            !.pc = "equal_keys",
                            !.heap = @ \ {first_entry},
                            !.first_entry = first_entry,
                            !.output = from_bytes(
                                current(call.readers, first_entry)[2])]
    /\ UNCHANGED emitted
    /\ merge_loop_unchanged

\* Lines 494-505: one iteration of `while let Some(mut entry) =
\* heap.peek_mut()` on an entry that is on first_key.
EqualKey ==
    /\ call.pc = "equal_keys"
    /\ call.heap # {}
    /\ LET entry == heap_peek(call.readers, call.heap)
           first == current(call.readers, call.first_entry)
           next == move_on_next(call.readers, entry)
       IN  /\ current(call.readers, entry)[1] = first[1]
           /\ call' = [call EXCEPT
                          !.output = merge(@, from_bytes(first[2])),
                          !.heap = (@ \ {entry}) \cup next,
                          !.drained = IF next = {} THEN @ \cup {entry.source_index}
                                      ELSE @]
    /\ UNCHANGED emitted
    /\ merge_loop_unchanged

\* Lines 506-526: the inner loop is left (the heap is empty or its top is
\* on another key), the maps are looked up, f is called and first_entry
\* moves on and goes back to the heap.
FinishEntry ==
    /\ call.pc = "equal_keys"
    /\ IF call.heap = {} THEN TRUE
       ELSE current(call.readers, heap_peek(call.readers, call.heap))[1]
                # current(call.readers, call.first_entry)[1]
    /\ LET first_key == current(call.readers, call.first_entry)[1]
           mem == union_from_maps(call.maps, 1, call.first_entry.source_index,
                                  first_key, call.output)
           next == move_on_next(call.readers, call.first_entry)
       IN  /\ emitted' = Append(emitted, <<first_key, mem.output>>)
           /\ call' = [call EXCEPT
                          !.pc = "loop",
                          !.maps = mem.maps,
                          !.heap = @ \cup next,
                          !.first_entry = NoEntry,
                          !.output = None,
                          !.drained = IF next = {}
                                      THEN @ \cup {call.first_entry.source_index}
                                      ELSE @]
    /\ merge_loop_unchanged

\* Lines 529-548: one iteration of `while let Some(mut map) = maps.pop()`,
\* or the return when no map is left.
MapsPop ==
    /\ call.pc = "maps"
    /\ IF call.maps = <<>>
       THEN /\ call' = [call EXCEPT !.pc = "returned"]
            /\ UNCHANGED emitted
       ELSE LET map == call.maps[Len(call.maps)]
                rest == SubSeq(call.maps, 1, Len(call.maps) - 1)
                done == map_entries_loop(map, SetToSeq(DOMAIN map), rest, emitted)
            IN  /\ call' = [call EXCEPT !.maps = done.maps,
                                        !.visited = Append(@, Len(call.maps))]
                /\ emitted' = done.calls
    /\ merge_loop_unchanged

NextMergeLoop ==
    \/ StartMerge
    \/ HeapPop
    \/ EqualKey
    \/ FinishEntry
    \/ MapsPop

\* The merger is one thread running the function: it takes its next step.
SpecMergeLoop == InitMergeLoop /\ [][NextMergeLoop]_vars /\ WF_vars(NextMergeLoop)

\* ------------------------------------------------------- dichotomic_search
\* dichotomic_search one loop iteration at a time.  `call` holds the frame
\* of the function; is_good is the monotone predicate of a threshold.
\* usize is UsizeBits wide.

UsizeBits == 5
UsizeMax == 2^UsizeBits - 1
Usizes == 0..UsizeMax

\* The closure the function is given: good up to the threshold.
is_good(threshold, x) == x <= threshold

\* usize arithmetic: an overflow panics when the overflow checks are on
\* (debug builds) and wraps when they are off.
checked(n) ==
    IF n <= UsizeMax THEN [panic |-> FALSE, value |-> n]
    ELSE IF debug THEN [panic |-> TRUE, value |-> 0]
    ELSE [panic |-> FALSE, value |-> n % (UsizeMax + 1)]

\* The match of lines 919-937: the next (biggest_good, smallest_bad,
\* current),
\* the last as a checked usize; `cur` is the current of the iteration.
dichotomic_match(biggest_good, smallest_bad, good, cur) ==
    CASE biggest_good = None /\ ~good ->
             <<None, cur, checked(cur \div 2)>>
      [] smallest_bad = None /\ good ->
             <<cur, None, checked(cur * 2)>>
      [] biggest_good = None /\ smallest_bad # None /\ good ->
             <<cur, smallest_bad,
               [checked(cur + smallest_bad) EXCEPT !.value = @ \div 2]>>
      [] biggest_good # None /\ smallest_bad # None /\ good ->
             <<cur, smallest_bad,
               [checked(smallest_bad + cur) EXCEPT !.value = @ \div 2]>>
      [] biggest_good # None /\ ~good ->
             <<biggest_good, cur,
               [checked(biggest_good + cur) EXCEPT !.value = @ \div 2]>>

InitSearch ==
    /\ db = EmptyDb
    /\ file_store = {}
    /\ now = 0
    /\ pc = "idle"
    /\ pb = NoBatch
    /\ ids = {}
    /\ wtxn = EmptyDb
    /\ enqueues = <<>>
    /\ debug \in BOOLEAN
    /\ NoCaches
    /\ \E start_point \in Usizes \ {0}, threshold \in Usizes :
           call = [fn |-> "dichotomic_search", pc |-> "loop",
                   start_point |-> start_point, threshold |-> threshold,
                   biggest_good |-> None, smallest_bad |-> None,
                   current |-> start_point, res |-> None]
    /\ NoCluster

\* One iteration of `loop` (lines 916-943).
SearchStep ==
    /\ call.pc = "loop"
    /\ LET m == dichotomic_match(call.biggest_good, call.smallest_bad,
                                 is_good(call.threshold, call.current),
                                 call.current)
           biggest_good == m[1]
           smallest_bad == m[2]
           next == m[3].value
       IN  call' =
               IF m[3].panic THEN [call EXCEPT !.pc = "panicked"]
               ELSE IF next = 0
                       \/ (smallest_bad # None /\ biggest_good # None
                           /\ biggest_good >= next)
               THEN [call EXCEPT !.pc = "returned", !.res = next,
                                 !.biggest_good = biggest_good,
                                 !.smallest_bad = smallest_bad,
                                 !.current = next]
               ELSE [call EXCEPT !.biggest_good = biggest_good,
                                 !.smallest_bad = smallest_bad,
                                 !.current = next]
    /\ UNCHANGED <<db, file_store, now, debug, pc, pb, ids, wtxn, enqueues,
                   cache_vars, cluster_vars>>

NextSearch ==
    \/ SearchStep

\* The caller is one thread running the function: it takes its next step.
SpecSearch == InitSearch /\ [][NextSearch]_vars /\ WF_vars(NextSearch)

\* ------------------------------------------------------------ the follower
\* A follower of the cluster.  The leader is the other end of the
\* connection: it sends any LeaderMsg; the connection and the channels of
\* the follower deliver in order and lose nothing.

MaxMsgs == 3
MaxBatchId == 2
MaxReady == 2

BatchIds == 0..MaxBatchId

\* LeaderMsg, without the contents the follower does not look at.
LeaderMsgs ==
    {[msg |-> "JoinFromDump", id |-> None],
     [msg |-> "RegisterNewTask", id |-> None],
     [msg |-> "ApiKeyOperation", id |-> None]}
    \cup {[msg |-> "StartBatch", id |-> id] : id \in BatchIds}
    \cup {[msg |-> "Commit", id |-> id] : id \in BatchIds}

\* The leader sends a message to the follower.
LeaderSend ==
    /\ Len(history.sent) < MaxMsgs
    /\ \E m \in LeaderMsgs :
           /\ receiver' = Append(receiver, m)
           /\ history' = [history EXCEPT !.sent = Append(@, m)]
    /\ UNCHANGED <<follower, thread, sched_vars, cache_vars>>

\* Follower::router: one iteration of its loop on the next message.
router ==
    /\ receiver # <<>>
    /\ LET m == Head(receiver)
       IN  /\ receiver' = Tail(receiver)
           /\ follower' =
                  CASE m.msg = "JoinFromDump" -> follower
                    [] m.msg = "StartBatch" ->
                           [follower EXCEPT !.get_batch = Append(@, m.id)]
                    [] m.msg = "Commit" ->
                           [follower EXCEPT !.must_commit = Append(@, m.id)]
                    [] m.msg = "RegisterNewTask" ->
                           [follower EXCEPT !.register_new_task = Append(@, m)]
                    [] m.msg = "ApiKeyOperation" ->
                           [follower EXCEPT !.api_key_op = Append(@, m)]
    /\ UNCHANGED <<thread, history, sched_vars, cache_vars>>

\* Follower::get_new_batch: blocks until the router has passed a batch on.
get_new_batch ==
    /\ thread = "idle"
    /\ follower.get_batch # <<>>
    /\ follower' = [follower EXCEPT !.get_batch = Tail(@),
                                    !.batch_id = Head(follower.get_batch)]
    /\ history' = [history EXCEPT !.got = Append(@, Head(follower.get_batch))]
    /\ UNCHANGED <<receiver, thread, sched_vars, cache_vars>>

\* Follower::ready_to_commit up to its loop: the batch id is read, under
\* a lock kept until the return, and sent to the leader.
ready_to_commit ==
    /\ thread = "idle"
    /\ Len(follower.sender) < MaxReady
    /\ follower' = [follower EXCEPT !.sender =
                       Append(@, [msg |-> "ReadyToCommit", id |-> follower.batch_id])]
    /\ thread' = "must_commit"
    /\ UNCHANGED <<receiver, history, sched_vars, cache_vars>>

\* Mutation of must_commit_recv: any id from the batch id on ends the loop.
must_commit_recv_any(id, batch_id) ==
    IF id >= batch_id THEN "break" ELSE "loop"

\* Lines 214-218: what the loop of ready_to_commit does with an id.
must_commit_recv(id, batch_id) ==
    IF id = batch_id THEN "break"
    ELSE IF id > batch_id THEN "panic"
    ELSE "loop"

\* One iteration of the loop of ready_to_commit: blocks until the router
\* has passed an id on.
must_commit ==
    /\ thread = "must_commit"
    /\ follower.must_commit # <<>>
    /\ LET id == Head(follower.must_commit)
           batch_id == follower.batch_id
           then == must_commit_recv(id, batch_id)
       IN  /\ follower' = [follower EXCEPT !.must_commit = Tail(@)]
           /\ thread' = CASE then = "break" -> "idle"
                          [] then = "panic" -> "panicked"
                          [] then = "loop" -> "must_commit"
           /\ history' = [history EXCEPT
                             !.seen = Append(@, id),
                             !.committed = IF then = "break"
                                           THEN Append(@, batch_id) ELSE @]
    /\ UNCHANGED <<receiver, sched_vars, cache_vars>>

NextCluster ==
    \/ LeaderSend
    \/ router
    \/ get_new_batch
    \/ ready_to_commit
    \/ must_commit

SpecCluster == Init /\ [][NextCluster]_vars

\* ------------------------------------------------------------------ claims
Stored == DOMAIN db.all_tasks
Task(u) == db.all_tasks[u]

\* C1: after any sequence of enqueue and update_task calls, a stored task is
\* in by_status[s] exactly when its status is s and in by_kind[k] exactly
\* when its kind is k.
C1_StatusAndKindBitmaps ==
    \A u \in Stored :
        /\ \A s \in Statuses : (u \in db.status[s]) <=> (Task(u).status = s)
        /\ \A k \in Kinds : (u \in db.kind[k]) <=> (as_kind(Task(u).kind) = k)

\* C1 witness: update_task moved a task to Succeeded and changed the kind
\* of a task.
C1_Witness ==
    /\ \E u \in Stored : Task(u).status = "Succeeded" /\ Task(u).batch_uid = 0
    /\ \E u \in Stored : Task(u).kind.tag = "DocumentClear"

\* C2: every stored task is a member of by_index[I] for every index I it
\* references, also after swap_index_uid_in_task rewrote it and update_task
\* stored it.
C2_IndexBitmaps ==
    \A u \in Stored : \A i \in indexes(Task(u)) : u \in db.index_tasks[i]

\* C3: each timestamp table holds a stored task's uid under key t exactly
\* when the task's field is set and equals t.
C3_DatetimeTables ==
    \A u \in Stored : \A t \in Times :
        /\ (u \in db.enqueued_at[t]) <=> (Task(u).enqueued_at = t)
        /\ (u \in db.started_at[t]) <=> (Task(u).started_at = t)
        /\ (u \in db.finished_at[t]) <=> (Task(u).finished_at = t)

\* C3 witness: a finished task whose three timestamps are set, not all under
\* the same key.
C3_Witness ==
    \E u \in Stored :
        /\ Task(u).started_at # None
        /\ Task(u).finished_at # None
        /\ Task(u).finished_at # Task(u).enqueued_at

\* C4: in every committed state a task with batch_uid = B is in
\* batch_to_tasks[B], and every uid of batch_to_tasks[B] is a stored task
\* whose batch_uid is B.
C4_BatchToTasks ==
    /\ \A u \in Stored :
          Task(u).batch_uid # None =>
              /\ Task(u).batch_uid \in DOMAIN db.batch_to_tasks_mapping
              /\ u \in db.batch_to_tasks_mapping[Task(u).batch_uid]
    /\ \A b \in DOMAIN db.batch_to_tasks_mapping :
          \A u \in db.batch_to_tasks_mapping[b] :
              u \in Stored /\ Task(u).batch_uid = b

\* The call `call` changes a field update_task must not let change, judged
\* against the task the caller loaded from the view d.
IllegalCall(d, c) ==
    LET old == d.all_tasks[c.uid]
    IN  \/ c.task.uid # old.uid
        \/ c.task.enqueued_at # old.enqueued_at
        \/ old.started_at # None /\ c.task.started_at # old.started_at
        \/ old.finished_at # None /\ c.task.finished_at # old.finished_at

\* C5: a task's uid and enqueued_at never change, started_at and finished_at
\* change only from absent to present, and an update_task call that would
\* do otherwise is rejected, leaving every table as it was.
C5_SanityCheck ==
    [][/\ \A u \in Stored \cap DOMAIN db'.all_tasks :
             /\ db'.all_tasks[u].uid = Task(u).uid
             /\ db'.all_tasks[u].enqueued_at = Task(u).enqueued_at
             /\ Task(u).started_at # None =>
                    db'.all_tasks[u].started_at = Task(u).started_at
             /\ Task(u).finished_at # None =>
                    db'.all_tasks[u].finished_at = Task(u).finished_at
       /\ (call'.uid # None /\ IllegalCall(db, call')) => db' = db]_vars

C7_UpdateFiles ==
    pc # "committing" =>
        \A u \in Stored :
            Task(u).kind.tag = "DocumentAdditionOrUpdate" =>
                IF Task(u).status \in {"Enqueued", "Processing"}
                THEN Task(u).kind.content_file \in file_store
                ELSE Task(u).kind.content_file \notin file_store

\* The status changes C8 allows.
AllowedTransitions ==
    {<<"Enqueued", "Processing">>, <<"Processing", "Succeeded">>,
     <<"Processing", "Failed">>, <<"Processing", "Canceled">>,
     <<"Enqueued", "Canceled">>, <<"Processing", "Enqueued">>}

KindRoundTrip ==
    \A i \in 1..Len(enqueues) :
        enqueues[i][1] \in Stored =>
            as_kind(Task(enqueues[i][1]).kind) = enqueues[i][2]

\* C9: get_task(u) returns a task of the enqueued kind, and a task that
\* reached a terminal status stays stored with that status in every later
\* state, whatever follows.
C9_ObservableForever ==
    /\ []KindRoundTrip
    /\ [][\A u \in Stored :
             Task(u).status \in Terminal =>
                 /\ u \in DOMAIN db'.all_tasks
                 /\ db'.all_tasks[u].status = Task(u).status]_vars

\* The uids the deletion batch in flight targets.
DeletionTargets ==
    UNION {Task(d).kind.tasks :
              d \in {x \in ids \cap Stored : Task(x).kind.tag = "TaskDeletion"}}

\* C9 as amended: get_task(u) returns a task of the enqueued kind while u is
\* stored, and a task that reached a terminal status stays stored with that
\* status until a deletion batch that targets it commits.
C9_ObservableUntilDeleted ==
    /\ []KindRoundTrip
    /\ [][\A u \in Stored :
             Task(u).status \in Terminal =>
                 \/ /\ u \in DOMAIN db'.all_tasks
                    /\ db'.all_tasks[u].status = Task(u).status
                 \/ /\ pc = "committing"
                    /\ u \in DeletionTargets
                    /\ u \notin DOMAIN db'.all_tasks]_vars

\* C9 witness: a deletion task succeeded and a task it targets is gone.
C9_Witness ==
    \E d \in Stored :
        /\ Task(d).kind.tag = "TaskDeletion"
        /\ Task(d).status = "Succeeded"
        /\ Task(d).kind.tasks \ Stored # {}

\* C10: once the recovery pass has run (the processor is idle) no task is
\* Processing, every Enqueued task has no batch_uid and the status bitmaps
\* agree with the tasks; and a task that is processed after a crash ends in
\* the status of a run without crash, where every update file is still
\* there when its task is processed: Succeeded, unless it was canceled.
C10_CrashRecovery ==
    /\ pc = "idle" =>
          /\ db.status["Processing"] = {}
          /\ \A u \in Stored :
                /\ Task(u).status # "Processing"
                /\ Task(u).status = "Enqueued" => Task(u).batch_uid = None
                /\ u \in db.status[Task(u).status]
    /\ \A u \in Stored :
          Task(u).status \in Terminal => Task(u).status \in {"Succeeded", "Canceled"}

\* One step seen from the cancelation tasks, for the targets whose kind is
\* in `kinds`: while a cancelation task is pending, a target that is
\* Enqueued stays Enqueued or becomes Canceled; and in the step that makes a
\* cancelation task Succeeded, its Enqueued targets become Canceled and
\* its canceled_tasks is their number.
CancelationStep(kinds) ==
    \A c \in Stored :
        Task(c).kind.tag = "TaskCancelation" =>
            LET targets == {t \in Task(c).kind.tasks \cap Stored :
                               /\ Task(t).status = "Enqueued"
                               /\ Task(t).kind.tag \in kinds}
            IN  /\ Task(c).status \in {"Enqueued", "Processing"} =>
                       \A t \in targets :
                           /\ t \in DOMAIN db'.all_tasks
                           /\ db'.all_tasks[t].status \in {"Enqueued", "Canceled"}
                /\ (/\ Task(c).status # "Succeeded"
                    /\ c \in DOMAIN db'.all_tasks
                    /\ db'.all_tasks[c].status = "Succeeded") =>
                       /\ \A t \in targets : db'.all_tasks[t].status = "Canceled"
                       /\ db'.all_tasks[c].details.canceled_tasks =
                              Cardinality({t \in Task(c).kind.tasks \cap Stored :
                                              /\ Task(t).status = "Enqueued"
                                              /\ db'.all_tasks[t].status = "Canceled"})

\* The tags of KindWithContent in the model.
KindTags ==
    {"DocumentAdditionOrUpdate", "DocumentClear", "IndexCreation",
     "IndexUpdate", "IndexSwap", "TaskCancelation", "TaskDeletion"}

C12_CanceledBy ==
    \A u \in Stored :
        Task(u).canceled_by # None =>
            /\ Task(u).status = "Canceled"
            /\ Task(u).canceled_by \in Stored
            /\ Task(Task(u).canceled_by).status = "Succeeded"
            /\ Task(Task(u).canceled_by).kind.tag = "TaskCancelation"
            /\ u \in Task(Task(u).canceled_by).kind.tasks

\* The last step was a call of the function `fn`.
IsCall(fn) == "fn" \in DOMAIN call /\ call.fn = fn

\* C13: after filter_out_references_to_newer_tasks on a cancelation or
\* deletion task the target set holds exactly the former targets smaller
\* than the task's uid; a task of another kind is unchanged.
C13_FilterNewer ==
    IsCall("filter_out_references_to_newer_tasks") =>
        IF call.arg.kind.tag \in {"TaskCancelation", "TaskDeletion"}
        THEN /\ \A t \in call.res.kind.tasks : t < call.arg.uid
             /\ call.res.kind.tasks \subseteq call.arg.kind.tasks
             /\ \A t \in call.arg.kind.tasks :
                    t < call.arg.uid => t \in call.res.kind.tasks
        ELSE call.res = call.arg

\* C13 witness: the target set held the task's own uid, a newer and an
\* older one, and the older one is what is left.
C13_Witness ==
    /\ IsCall("filter_out_references_to_newer_tasks")
    /\ call.arg.kind.tag = "TaskCancelation"
    /\ call.arg.uid = 1
    /\ call.arg.kind.tasks = {0, 1, 2}
    /\ call.res.kind.tasks = {0}

\* The second of two calls returns its argument, and a cancelation or
\* deletion task whose details are in `tags` leaves a call with
\* matched_tasks equal to the size of its target set.
FilterIdempotentAndCounts(tags) ==
    /\ IsCall("filter_out_references_to_newer_tasks twice") =>
           call.res = call.arg
    /\ (/\ IsCall("filter_out_references_to_newer_tasks")
        /\ call.arg.kind.tag \in {"TaskCancelation", "TaskDeletion"}
        /\ call.arg.details.tag \in tags) =>
           call.res.details.matched_tasks = Cardinality(call.res.kind.tasks)

Duplicated(swaps) ==
    {n \in SwapNames :
        Cardinality({p \in (DOMAIN swaps) \X {1, 2} : swaps[p[1]][p[2]] = n}) > 1}

\* C15: check_index_swap_validity fails for an index swap exactly when a
\* name occurs more than once among the members of its pairs, the error
\* names every such index, and every other task is accepted.
C15_SwapValidity ==
    IsCall("check_index_swap_validity") =>
        IF call.arg.kind.tag = "IndexSwap"
        THEN /\ call.res.res = "err" <=> Duplicated(call.arg.kind.swaps) # {}
             /\ call.res.indexes = Duplicated(call.arg.kind.swaps)
        ELSE call.res.res = "ok"

\* C15 witness: [(a, b), (b, c)] is rejected and the error names b.
C15_Witness ==
    /\ IsCall("check_index_swap_validity")
    /\ call.arg.kind.swaps = <<<<"a", "b">>, <<"b", "c">>>>
    /\ call.res = [res |-> "err", indexes |-> {"b"}]

\* The exchange of the two names of a swap.
Exchanged(name, swap) ==
    IF name = swap[1] THEN swap[2] ELSE IF name = swap[2] THEN swap[1] ELSE name

\* C16: swap_index_uid_in_task exchanges the two names wherever the task
\* refers to an index, in kind and in the IndexSwap details, leaves every
\* other name and field as it was, and keeps the swaps of kind and details
\* equal.
C16_SwapIndexUid ==
    IsCall("swap_index_uid_in_task") =>
        LET task == call.arg
            res == call.res
            ex(swaps) == [i \in DOMAIN swaps |->
                             <<Exchanged(swaps[i][1], call.with),
                               Exchanged(swaps[i][2], call.with)>>]
        IN  /\ res.kind.index_uid = Exchanged(task.kind.index_uid, call.with)
            /\ res.kind.swaps = ex(task.kind.swaps)
            /\ res.details.swaps = ex(task.details.swaps)
            /\ [res.kind EXCEPT !.index_uid = task.kind.index_uid,
                                !.swaps = task.kind.swaps] = task.kind
            /\ [res.details EXCEPT !.swaps = task.details.swaps] = task.details
            /\ [res EXCEPT !.kind = task.kind, !.details = task.details] = task
            /\ (task.details.tag = "IndexSwap"
                   /\ task.details.swaps = task.kind.swaps) =>
                   res.details.swaps = res.kind.swaps

\* C16 witness: an index swap of (a, c) and (b, b) rewritten by (a, b), in
\* its kind and in its details.
C16_Witness ==
    /\ IsCall("swap_index_uid_in_task")
    /\ call.with = <<"a", "b">>
    /\ call.arg.kind.swaps = <<<<"a", "c">>, <<"b", "b">>>>
    /\ call.res.kind.swaps = <<<<"b", "c">>, <<"a", "a">>>>
    /\ call.res.details.swaps = call.res.kind.swaps

C18_OneKindPerBatch ==
    /\ pb.uid # None => Cardinality(pb.kinds) = 1
    /\ \A b \in DOMAIN db.all_batches :
          Cardinality({k \in Kinds : b \in db.batch_kind[k]}) = 1

\* C19: from the first commit of a batch to its terminal commit every
\* claimed task is stored with status Processing and the batch's uid, is in
\* by_status[Processing] and is not in by_status[Enqueued].
C19_ObservablyProcessing ==
    pc \in {"processing", "committing"} =>
        /\ ids # {}
        /\ \A u \in ids :
              /\ u \in Stored
              /\ Task(u).status = "Processing"
              /\ Task(u).batch_uid = pb.uid
              /\ u \in db.status["Processing"]
              /\ u \notin db.status["Enqueued"]

\* C19 witness: two tasks are claimed by one batch, readers see them
\* Processing, and the terminal transaction, not committed yet, already
\* holds their terminal status.
C19_Witness ==
    /\ pc = "committing"
    /\ Cardinality(ids) = 2
    /\ \A u \in ids : Task(u).status = "Processing" /\ Task(u).batch_uid = pb.uid
    /\ \A u \in ids : wtxn.all_tasks[u].status \in Terminal

\* C20: for every persisted batch and every stored task of it, the batch
\* started at or after the task was enqueued, the task started when the
\* batch started, and the task finished strictly after it started.
C20_BatchTimes ==
    \A b \in DOMAIN db.all_batches :
        \A u \in Stored :
            (u \in tasks_in_batch(db, b) \/ Task(u).batch_uid = b) =>
                /\ db.all_batches[b].started_at >= Task(u).enqueued_at
                /\ Task(u).started_at = db.all_batches[b].started_at
                /\ Task(u).finished_at > Task(u).started_at

\* The tasks the terminal transaction holds under the batch in flight: the
\* tasks ProcessingBatch::update was called on.
Updated == {u \in DOMAIN wtxn.all_tasks : wtxn.all_tasks[u].batch_uid = pb.uid}

Sum(f) ==
    LET RECURSIVE sum(_)
        sum(S) == IF S = {} THEN 0
                  ELSE LET x == CHOOSE y \in S : TRUE IN f[x] + sum(S \ {x})
    IN  sum(DOMAIN f)

\* C21: the persisted batch counts each task driven through processing,
\* finished and update exactly once: total_nb_tasks is their number, the
\* per-status counts are those of their final statuses (none Processing)
\* and the per-kind counts those of their kinds, each summing to the total.
C21_BatchStats ==
    pc = "committing" =>
        LET stats == wtxn.all_batches[pb.uid].stats
            n == Cardinality(Updated)
        IN  /\ ids \subseteq Updated
            /\ stats.total_nb_tasks = n
            /\ Sum(stats.status) = n
            /\ Sum(stats.types) = n
            /\ stats.status["Processing"] = 0
            /\ \A s \in Statuses : stats.status[s] =
                  Cardinality({u \in Updated : wtxn.all_tasks[u].status = s})
            /\ \A k \in Kinds : stats.types[k] =
                  Cardinality({u \in Updated : as_kind(wtxn.all_tasks[u].kind) = k})

\* C21 witness: a batch of two tasks is written with a total of two.
C21_Witness ==
    /\ pc = "committing"
    /\ Cardinality(ids) = 2
    /\ wtxn.all_batches[pb.uid].stats.total_nb_tasks = 2

\* What write_batch leaves for the batch in flight when `its` are the
\* batch's tasks.
WrittenBatch(its) ==
    LET b == pb.uid
        mine(u) == wtxn.all_tasks[u]
    IN  /\ b \in DOMAIN wtxn.all_batches
        /\ wtxn.all_batches[b].uid = b
        /\ tasks_in_batch(wtxn, b) = ids
        /\ \A s \in Statuses :
              b \in wtxn.batch_status[s] <=> \E u \in its : mine(u).status = s
        /\ b \notin wtxn.batch_status["Processing"]
        /\ \A u \in its :
              /\ b \in wtxn.batch_kind[as_kind(mine(u).kind)]
              /\ \A i \in indexes(mine(u)) : b \in wtxn.batch_index_tasks[i]
        /\ b \in wtxn.batch_started_at[wtxn.all_batches[b].started_at]
        /\ b \in wtxn.batch_finished_at[wtxn.all_batches[b].finished_at]

\* C22: after write_batch the batch is stored, batch_to_tasks holds the
\* tasks handed to write_batch, and the batch is in batch_status exactly for
\* the final statuses of its tasks, in batch_kind and batch_index for their
\* kinds and indexes, and in the started_at / finished_at maps; whether
\* "its tasks" are the tasks handed to write_batch or the tasks that carry
\* the batch's uid.
C22_WriteBatch ==
    pc = "committing" =>
        \/ WrittenBatch(ids \cap DOMAIN wtxn.all_tasks)
        \/ WrittenBatch(Updated)

\* An IndexUpdate of an index that does not exist is accepted by register.
UpdateOfMissingAccepted ==
    \A i \in Indexes \ db.index_mapping :
        LET r == register(db, IndexUpdate(i), now)
        IN  /\ r.res = "ok"
            /\ r.task.status = "Enqueued"
            /\ r.task.error = NoError
            /\ get_task(r.db, r.task.uid) = r.task
            /\ r.task.uid \in r.db.status["Enqueued"]

\* The error of an IndexUpdate of a missing index is written by the batch
\* that processes it, with a terminal status, and by nothing before.
IndexNotFoundSurfaces ==
    /\ \A u \in Stored :
          /\ Task(u).status \in {"Enqueued", "Processing"} => Task(u).error = NoError
          /\ Task(u).error # NoError => Task(u).status = "Failed"
    /\ pc = "committing" =>
          \A u \in ids :
              (/\ Task(u).kind.tag = "IndexUpdate"
               /\ Task(u).kind.index_uid \notin db.index_mapping) =>
                  /\ wtxn.all_tasks[u].status \in Terminal
                  /\ wtxn.all_tasks[u].error = "index_not_found"

Merged == emitted # <<>>

\* The ids the callback received for the key on the side, over all buckets.
Output(side, key) ==
    UNION {bitmap_of(emitted[b].calls[i][2][side]) :
              <<b, i>> \in {<<b, i>> \in UNION {{b} \X DOMAIN emitted[b].calls :
                                                   b \in DOMAIN emitted} :
                               emitted[b].calls[i][1] = key}}

\* The ids inserted under the key on the side, by any thread.
Inserted(side, key) ==
    {e[4] : e \in {x \in inserted : x[2] = side /\ x[3] = key}}

\* C24: after transpose_and_freeze_caches and merge_caches_sorted, for every
\* key, the add ids passed to the callback are exactly the ids added under
\* the key and the del ids exactly the ids deleted under it, whatever the
\* threads, the thresholds and the moments the caches started spilling.
C24_MergedOutput ==
    Merged => \A side \in Sides, key \in CacheKeys :
                  Output(side, key) = Inserted(side, key)

\* The keys of a bucket group: those of its maps and those of its readers.
GroupKeys(b) ==
    UNION {DOMAIN frozen.groups[b][i].cache \cup
           {frozen.groups[b][i].spilled[r][j][1] :
               <<r, j>> \in UNION {{r} \X DOMAIN frozen.groups[b][i].spilled[r] :
                                      r \in DOMAIN frozen.groups[b][i].spilled}} :
              i \in DOMAIN frozen.groups[b]}

\* How many times the callback was called with the key for the group.
Emissions(b, key) ==
    Cardinality({i \in DOMAIN emitted[b].calls : emitted[b].calls[i][1] = key})

\* C25: merge_caches_sorted calls the callback exactly once for each key of
\* the bucket group, be the key in spilled runs, in in-memory maps or in
\* both, and never for another key.
C25_EachKeyOnce ==
    Merged => \A b \in DOMAIN emitted, key \in CacheKeys :
                  Emissions(b, key) = IF key \in GroupKeys(b) THEN 1 ELSE 0

\* C26: within a bucket group the callback is called in strictly ascending
\* key order over the whole call, the spilled phase and the in-memory phase
\* together, and the calls are a function of the frozen group.
C26_AscendingCalls ==
    Merged => \A b \in DOMAIN emitted :
                  /\ emitted[b] = merge_caches_sorted(frozen.groups[b])
                  /\ \A i, j \in DOMAIN emitted[b].calls :
                         i < j => emitted[b].calls[i][1] < emitted[b].calls[j][1]


\* The bucket of the cache a key belongs to.
bucket_of(key) == compute_bucket_from_hash(Buckets, hash_one(key))

\* The ids the sorters of thread t hold for the key on the side.
SpilledIds(t, side, key) ==
    LET tag == IF side = "del" THEN "Deletion" ELSE "Addition"
        sorter == caches[t].spilled_entries[bucket_of(key)]
    IN  UNION {sorter[i][key][tag] :
                  i \in {j \in DOMAIN sorter :
                            /\ key \in DOMAIN sorter[j]
                            /\ tag \in DOMAIN sorter[j][key]}}

\* The ids the in-memory entry of thread t holds for the key on the side.
ResidentIds(t, side, key) ==
    LET map == caches[t].caches[bucket_of(key)]
    IN  IF key \in DOMAIN map THEN bitmap_of(map[key][side]) ELSE {}

\* The inserts thread t made.
InsertedBy(t) == {e \in inserted : e[1] = t}

\* C27: in a cache created with max_memory = 0 every key that was inserted
\* was written to its bucket's sorter at its first insert, and every
\* inserted id is held by the sorter or, for a resident key, by the
\* in-memory entry: the threshold drops nothing.
C27_ZeroThreshold ==
    \A t \in DOMAIN caches :
        caches[t].max_memory = 0 =>
            \A e \in InsertedBy(t) :
                /\ SpilledIds(t, "del", e[3]) \cup SpilledIds(t, "add", e[3]) # {}
                /\ e[4] \in SpilledIds(t, e[2], e[3]) \cup ResidentIds(t, e[2], e[3])
                /\ e[3] \in DOMAIN caches[t].caches[bucket_of(e[3])]
                       => e[4] \in ResidentIds(t, e[2], e[3])

\* A cache with max_memory = 0 received two inserts for the same key, the
\* second for a key it had seen.
C27_Witness ==
    \E t \in DOMAIN caches :
        /\ caches[t].max_memory = 0
        /\ caches[t].mode = "Spilling"
        /\ Cardinality(InsertedBy(t)) >= 2
        /\ \E e, f \in InsertedBy(t) : e # f /\ e[3] = f[3]

\* What one step does to the cache of thread t, `e` being the insert made
\* by the step if there is one.
SpillingStep(t) ==
    LET c == caches[t]
        d == caches'[t]
    IN  /\ c.mode = "Spilling" => d.mode = "Spilling"
        /\ start_spilling(c).mode = "Spilling"
        /\ start_spilling(c).caches = c.caches
        /\ d.mode = "Spilling" =>
            /\ \A b \in DOMAIN c.caches :
                   DOMAIN d.caches[b] = DOMAIN c.caches[b]
            /\ \A e \in inserted' \ inserted :
                   e[1] = t =>
                       LET b == bucket_of(e[3])
                       IN  IF e[3] \in DOMAIN c.caches[b]
                           THEN /\ d.spilled_entries = c.spilled_entries
                                /\ d.caches = [c.caches EXCEPT ![b][e[3]] =
                                       get_or_insert(@, e[2], e[4])]
                           ELSE /\ d.caches = c.caches
                                /\ \A o \in DOMAIN c.caches \ {b} :
                                       d.spilled_entries[o] = c.spilled_entries[o]
                                /\ e[4] \in SpilledIds(t, e[2], e[3])'

\* C28: a cache in Spilling mode stays in Spilling mode; start_spilling
\* keeps every bucket and every resident entry; once spilling, the resident
\* keys of each bucket are fixed, an insert for a resident key changes only
\* its in-memory entry and an insert for another key changes only the
\* sorter of the key's bucket.
C28_SpillingMode ==
    [][\A t \in DOMAIN caches : SpillingStep(t)]_vars

\* A spilling cache holds a resident key and a spilled one.
C28_Witness ==
    \E t \in DOMAIN caches :
        /\ caches[t].mode = "Spilling"
        /\ \E b \in DOMAIN caches[t].caches : caches[t].caches[b] # <<>>
        /\ \E b \in DOMAIN caches[t].caches : caches[t].spilled_entries[b] # <<>>

\* C29: transpose_and_freeze_caches on T caches of B buckets returns B
\* groups, group b being bucket b of every thread in thread order, with
\* the thread's readers for the bucket; the bucket-id assertion of
\* merge_caches_sorted holds on every group; without caches there is no
\* group.
C29_Transpose ==
    frozen # NoGroups =>
        /\ frozen.res = "ok"
        /\ DOMAIN frozen.groups =
               IF caches = <<>> THEN {} ELSE 0..(buckets_of(caches[1]) - 1)
        /\ \A b \in DOMAIN frozen.groups :
               /\ Len(frozen.groups[b]) = Len(caches)
               /\ \A t \in DOMAIN caches :
                      /\ frozen.groups[b][t] = freeze(caches[t])[b]
                      /\ frozen.groups[b][t].bucket = b
               /\ merge_caches_sorted(frozen.groups[b]).res = "ok"

\* Two threads were frozen and transposed, one of them with a spilled run.
C29_Witness ==
    /\ frozen.res = "ok"
    /\ Len(caches) = 2
    /\ \E b \in DOMAIN frozen.groups, t \in DOMAIN caches :
           frozen.groups[b][t].spilled # <<>>


\* The sets a DelAddRoaringBitmap stands for.
Represented(deladd) ==
    [del |-> bitmap_of(deladd.del), add |-> bitmap_of(deladd.add)]

\* C30: merge(a, b) has del = a.del \cup b.del and add = a.add \cup b.add,
\* an absent side counting as empty and a side of the result being absent
\* only when it is absent in both; merge is commutative, idempotent and
\* associative on the represented sets.
C30_MergeUnion ==
    (call # NoCall /\ call.fn = "merge") =>
        LET a == call.arg
            b == call.with[1]
        IN  IF Len(call.with) = 1
            THEN /\ \A side \in Sides :
                        /\ bitmap_of(call.res[side]) =
                               bitmap_of(a[side]) \cup bitmap_of(b[side])
                        /\ call.res[side] = NoBitmap <=>
                               (a[side] = NoBitmap /\ b[side] = NoBitmap)
                 /\ Represented(merge(b, a)) = Represented(call.res)
                 /\ Represented(merge(a, a)) = Represented(a)
            ELSE Represented(call.res) =
                     Represented(merge(a, merge(b, call.with[2])))

\* Three values were merged: the first lacks the del side, the second has
\* both, the third lacks the add side.
C30_Witness ==
    /\ call # NoCall
    /\ call.fn = "merge"
    /\ Len(call.with) = 2
    /\ call.arg.del = NoBitmap /\ call.arg.add # NoBitmap
    /\ call.with[1].del # NoBitmap /\ call.with[1].add # NoBitmap
    /\ call.with[2].add = NoBitmap
    /\ call.res.del # NoBitmap

\* C31: apply_to leaves in documents_ids exactly the ids of add and the ids
\* it had that are not in del: an id in both del and add is in it, an id
\* only in del is not, an id only in add is, any other id is as before.
C31_ApplyTo ==
    (call # NoCall /\ call.fn = "apply_to") =>
        LET del == bitmap_of(call.arg.del)
            add == bitmap_of(call.arg.add)
        IN  /\ call.res = (call.with \ del) \cup add
            /\ \A id \in WideIds :
                   /\ (id \in del /\ id \in add) => id \in call.res
                   /\ (id \in del /\ id \notin add) => id \notin call.res
                   /\ (id \notin del /\ id \in add) => id \in call.res
                   /\ (id \notin del /\ id \notin add) =>
                          (id \in call.res <=> id \in call.with)

\* apply_to met an id in both sides, an id only deleted that the bitmap
\* had, and an id of the bitmap in neither side.
C31_Witness ==
    /\ call # NoCall
    /\ call.fn = "apply_to"
    /\ call.arg.del # NoBitmap /\ call.arg.add # NoBitmap
    /\ \E i, j, k \in WideIds :
           /\ i \in call.arg.del[1] /\ i \in call.arg.add[1] /\ i \in call.res
           /\ j \in call.arg.del[1] /\ j \notin call.arg.add[1] /\ j \in call.with
           /\ k \notin call.arg.del[1] /\ k \notin call.arg.add[1] /\ k \in call.with

\* C32: Attribute::new(a, i) succeeds and gives back a and i for a <= 2^10
\* and i <= 2^22, WordArea::new(b, l) likewise for b <= 2^22 and l <= 2^10,
\* and Attribute::new(a, i) < Attribute::new(a + 1, i + 1) for a < 2^10 and
\* i < 2^22.
C32_RoundTrip ==
    /\ (call # NoCall /\ call.fn = "Attribute::new"
            /\ call.arg <= 2^10 /\ call.with <= 2^22) =>
           /\ call.res.ok
           /\ attribute(call.res.value) = call.arg
           /\ word_index(call.res.value) = U32(call.with)
           /\ (call.arg < 2^10 /\ call.with < 2^22) =>
                  /\ Attribute_new(call.arg + 1, call.with + 1).ok
                  /\ lt32(call.res.value,
                          Attribute_new(call.arg + 1, call.with + 1).value)
    /\ (call # NoCall /\ call.fn = "WordArea::new"
            /\ call.arg <= 2^22 /\ call.with <= 2^10) =>
           /\ call.res.ok
           /\ byte_index(call.res.value) = U32(call.arg)
           /\ length(call.res.value) = call.with

\* The value the map holds under the name, or None.
StoredUnder(version, name) ==
    IF get_index(version, name) = None THEN None
    ELSE version[get_index(version, name)][2]

\* C33: for a document built by Versions::single from a map holding
\* `_vectors` and/or `_geo` anywhere, iter_top_level_fields returns every
\* other field exactly once and neither of the two, and vectors_field and
\* geo_field return the values the map held under `_vectors` and `_geo`.
C33_ReservedFields ==
    (call # NoCall /\ call.fn = "Versions::single"
         /\ \E i \in DOMAIN call.arg :
                call.arg[i][1] \in {RESERVED_VECTORS_FIELD_NAME, "_geo"}) =>
        LET fields == iter_top_level_fields(call.res)
        IN  /\ call.res.res = "ok"
            /\ \A i \in DOMAIN call.arg :
                   call.arg[i][1] \notin {RESERVED_VECTORS_FIELD_NAME, "_geo"} =>
                       Cardinality({j \in DOMAIN fields : fields[j] = call.arg[i]}) = 1
            /\ \A j \in DOMAIN fields :
                   /\ fields[j][1] \notin {RESERVED_VECTORS_FIELD_NAME, "_geo"}
                   /\ \E i \in DOMAIN call.arg : call.arg[i] = fields[j]
            /\ vectors_field(call.res) =
                   StoredUnder(call.arg, RESERVED_VECTORS_FIELD_NAME)
            /\ geo_field(call.res) = StoredUnder(call.arg, "_geo")

\* The update_task calls of the first half of a tick pass the debug
\* assertion: the calls end the same with the assertion compiled in or out.
ClaimCallsPass ==
    (pc = "idle" /\ next_batch(db) # {}) =>
        \A time \in Clock :
            LET c == claim_tasks(db, ProcessingBatch_new(next_batch_id(db), time),
                                 SetToSeq(next_batch(db)))
            IN  update_tasks(db, c.tasks, TRUE).res =
                    update_tasks(db, c.tasks, FALSE).res

\* The update_task calls of the terminal transaction pass it too.
TerminalCallsPass ==
    pc = "processing" =>
        \A time \in Clock :
            terminal_txn(db, pb, ids, file_store, time, TRUE).res =
                terminal_txn(db, pb, ids, file_store, time, FALSE).res

\* C34: the debug assertion at the top of update_task holds at every call
\* the processor loop makes: the calls that mark the claimed tasks
\* Processing, the calls that record the terminal statuses, and the calls
\* made for tasks retried after a crash recovery.
C34_DebugAssertion == ClaimCallsPass /\ TerminalCallsPass

\* Every task of the view with a started_at has a finished_at.
StartedTasksFinished(d) ==
    \A u \in DOMAIN d.all_tasks :
        d.all_tasks[u].started_at # None => d.all_tasks[u].finished_at # None

\* Every batch of the view has a finished_at.
StoredBatchesFinished(d) ==
    \A b \in DOMAIN d.all_batches : d.all_batches[b].finished_at # None

DistinctUids ==
    \A i, j \in DOMAIN enqueues :
        enqueues[i][1] = enqueues[j][1] => i = j

\* A step loses no task: a stored task disappears only when a TaskDeletion
\* batch that targets it commits.
NoTaskLost ==
    \A u \in DOMAIN db.all_tasks :
        u \notin DOMAIN db'.all_tasks =>
            /\ pc = "committing"
            /\ \E d \in ids :
                   /\ db.all_tasks[d].kind.tag = "TaskDeletion"
                   /\ u \in db.all_tasks[d].kind.tasks

\* An enqueue made while a batch is in flight stores a new Enqueued task
\* under a fresh uid and leaves the batch and its task set as they are.
EnqueuedInFlight ==
    (pc = "processing" /\ Len(enqueues') = Len(enqueues) + 1) =>
        LET u == enqueues'[Len(enqueues')][1]
        IN  /\ u \notin DOMAIN db.all_tasks
            /\ u \notin ids'
            /\ ids' = ids /\ pb' = pb /\ pc' = pc
            /\ db'.all_tasks[u].status = "Enqueued"
            /\ db'.all_tasks[u].batch_uid = None
            /\ \A v \in DOMAIN db.all_tasks : db'.all_tasks[v] = db.all_tasks[v]

\* While a batch is in flight, an Enqueued task newer than the tasks of the
\* batch is left as it is by every step.
NewerTasksWait ==
    (pc \in {"processing", "committing"} /\ ids # {}) =>
        \A u \in DOMAIN db.all_tasks :
            (u > Max(ids) /\ db.all_tasks[u].status = "Enqueued") =>
                /\ u \in DOMAIN db'.all_tasks
                /\ db'.all_tasks[u] = db.all_tasks[u]
                /\ u \notin ids'

\* C36: enqueues interleaved with the processor and with each other never
\* return the same uid twice and never lose a task, and a task enqueued
\* while a batch is in flight stays Enqueued and outside the batch until a
\* later batch claims it.
C36_InterleavedEnqueues ==
    /\ []DistinctUids
    /\ [][NoTaskLost /\ EnqueuedInFlight /\ NewerTasksWait]_vars

\* Task 1, which the batcher would have put in the batch of task 0 had it
\* been there, was enqueued while that batch was in flight: the terminal
\* transaction of the batch holds task 0 finished and task 1 still Enqueued.
C36_Witness ==
    /\ pc = "committing"
    /\ ids = {0}
    /\ {0, 1} \subseteq DOMAIN wtxn.all_tasks
    /\ db.all_tasks[0].kind.tag = "DocumentAdditionOrUpdate"
    /\ db.all_tasks[1].kind.tag = "DocumentAdditionOrUpdate"
    /\ db.all_tasks[1].kind.index_uid = db.all_tasks[0].kind.index_uid
    /\ wtxn.all_tasks[0].status \in Terminal
    /\ wtxn.all_tasks[1].status = "Enqueued"
    /\ wtxn.all_tasks[1].batch_uid = None

\* The keys thread t holds for bucket b, in memory and in its sorter.
KeysOfBucket(t, b) ==
    DOMAIN caches[t].caches[b]
    \cup UNION {DOMAIN caches[t].spilled_entries[b][i] :
                   i \in DOMAIN caches[t].spilled_entries[b]}

\* C37: in every thread's cache, in Normal and in Spilling mode, in memory
\* and in the sorters, a key is held by bucket hash(key) mod B only; after
\* the transposition every key of a group hashes to the group's bucket, so
\* no key is in two groups.
C37_BucketRouting ==
    /\ \A t \in DOMAIN caches : \A b \in DOMAIN caches[t].caches :
           \A key \in KeysOfBucket(t, b) :
               b = compute_bucket_from_hash(buckets_of(caches[t]), hash_one(key))
    /\ frozen.res = "ok" =>
           /\ \A b \in DOMAIN frozen.groups : \A key \in GroupKeys(b) :
                  b = compute_bucket_from_hash(Buckets, hash_one(key))
           /\ \A b, c \in DOMAIN frozen.groups :
                  b # c => GroupKeys(b) \cap GroupKeys(c) = {}

\* The same key is resident in one thread and spilled by another, and
\* both occurrences are in the same group after the transposition.
C37_Witness ==
    /\ frozen.res = "ok"
    /\ \E b \in DOMAIN frozen.groups, i, j \in DOMAIN caches, key \in CacheKeys :
           /\ i # j
           /\ key \in DOMAIN frozen.groups[b][i].cache
           /\ \E r \in DOMAIN frozen.groups[b][j].spilled :
                  \E x \in DOMAIN frozen.groups[b][j].spilled[r] :
                      frozen.groups[b][j].spilled[r][x][1] = key

\* The entries the cursors of the heap, and of first_entry, are on or have
\* still to read.
RECURSIVE RemainingOf(_, _)
RemainingOf(readers, entries) ==
    IF entries = {} THEN 0
    ELSE LET e == CHOOSE x \in entries : TRUE
         IN  (Len(readers[e.source_index]) - e.pos + 1)
                 + RemainingOf(readers, entries \ {e})

\* The cursors of the frame: those of the heap and the one of first_entry.
Entries(frame) ==
    frame.heap \cup (IF frame.first_entry = NoEntry THEN {} ELSE {frame.first_entry})

Remaining(frame) == RemainingOf(frame.readers, Entries(frame))

\* Every cursor of the heap is on an entry.
HeapEntriesCurrent ==
    call.pc \in {"loop", "equal_keys", "maps", "returned"} =>
        \A e \in call.heap : e.pos \in 1..Len(call.readers[e.source_index])

\* An iteration of the inner loop, and the end of an iteration of the
\* outer loop, leave one entry less to read; the pop of the outer loop
\* leaves as many; an iteration of the last loop leaves one map less.
LoopsAdvance ==
    /\ call.pc = "equal_keys" =>
           /\ Remaining(call') < Remaining(call)
           /\ \E e \in Entries(call) :
                  Entries(call') \in
                      {Entries(call) \ {e},
                       (Entries(call) \ {e}) \cup {[e EXCEPT !.pos = @ + 1]}}
    /\ call.pc = "loop" => Remaining(call') = Remaining(call)
    /\ (call.pc = "maps" /\ call.maps # <<>>) =>
           Len(call'.maps) = Len(call.maps) - 1

\* The function has returned: every reader was read to its end and every
\* map was popped once.
Drained ==
    call.pc = "returned" =>
        /\ call.heap = {}
        /\ call.drained = 1..Len(call.readers)
        /\ call.maps = <<>>
        /\ Len(call.visited) = Len(frozen.groups[0])
        /\ \A i, j \in DOMAIN call.visited :
               i # j => call.visited[i] # call.visited[j]

\* C38: merge_caches_sorted returns on every group of frozen caches: each
\* iteration of the inner loop and of the outer loop moves a cursor
\* forward or takes it out of the heap, each iteration of the last loop
\* pops a map, and at the return every reader is drained and every map
\* was visited once.
C38_Termination ==
    /\ <>(call.pc = "returned")
    /\ [](HeapEntriesCurrent /\ Drained)
    /\ [][LoopsAdvance]_vars

\* The function has returned from a group in which three readers were on
\* the same key and one of them had a second entry.
C38_Witness ==
    /\ call.fn = "merge_caches_sorted"
    /\ call.pc = "returned"
    /\ \E key \in LoopKeys :
           Cardinality({s \in DOMAIN call.readers :
                           \E x \in DOMAIN call.readers[s] :
                               call.readers[s][x][1] = key}) >= 3
    /\ \E s \in DOMAIN call.readers : Len(call.readers[s]) >= 2
    /\ Len(call.visited) = 2

\* C39: for a predicate that is good up to a threshold and a start point
\* of 1 or more, dichotomic_search returns, and it returns the threshold,
\* which is 0 when no positive value is good; a positive value it returns
\* is good.
C39_DichotomicSearch ==
    /\ <>(call.pc = "returned")
    /\ [](call.pc = "returned" =>
              /\ call.res = call.threshold
              /\ call.res > 0 => is_good(call.threshold, call.res))

\* The ids of the Commit messages of a sequence of LeaderMsg, in order.
RECURSIVE Commits(_)
Commits(msgs) ==
    IF msgs = <<>> THEN <<>>
    ELSE IF Head(msgs).msg = "Commit" THEN <<Head(msgs).id>> \o Commits(Tail(msgs))
    ELSE Commits(Tail(msgs))

\* ready_to_commit sends the id of the last get_new_batch.
SendsLastBatch ==
    (thread = "idle" /\ thread' = "must_commit") =>
        /\ follower'.sender = Append(follower.sender,
               [msg |-> "ReadyToCommit",
                id |-> IF history.got = <<>> THEN 0
                       ELSE history.got[Len(history.got)]])
        /\ history.got # <<>> =>
               follower.batch_id = history.got[Len(history.got)]

\* In the loop, a lower id is dropped and the loop goes on, a higher id
\* aborts, and the function returns on the id it sent and on no other.
LoopOnCommits ==
    thread = "must_commit" /\ history'.seen # history.seen =>
        LET id == history'.seen[Len(history'.seen)]
            b == follower.sender[Len(follower.sender)].id
        IN  /\ id < b => thread' = "must_commit" /\ UNCHANGED history.committed
            /\ id > b => thread' = "panicked" /\ UNCHANGED history.committed
            /\ id = b => /\ thread' = "idle"
                         /\ history'.committed = Append(history.committed, b)
            /\ thread' = "idle" => id = b

\* The follower has seen a prefix of the Commit messages of the leader,
\* and every batch it committed is one whose commit the leader had sent.
SeenInOrder ==
    /\ Len(history.seen) <= Len(Commits(history.sent))
    /\ history.seen = SubSeq(Commits(history.sent), 1, Len(history.seen))
    /\ \A i \in DOMAIN history.committed :
           \E j \in DOMAIN history.seen : history.seen[j] = history.committed[i]
    /\ Len(history.committed) <= Len(follower.sender)

\* C40: ready_to_commit sends ReadyToCommit(b) for the b of the last
\* get_new_batch and returns on a Commit(b) only: a lower id is dropped, a
\* higher one aborts the follower; the follower commits b after the leader
\* sent Commit(b), and sees the Commit messages in the leader's order.
C40_ReadyToCommit ==
    /\ []SeenInOrder
    /\ [][SendsLastBatch /\ LoopOnCommits]_vars

\* ready_to_commit has returned for batch 1 after it dropped a Commit(0).
C40_Witness ==
    /\ thread = "idle"
    /\ history.got = <<1>>
    /\ history.seen = <<0, 1>>
    /\ history.committed = <<1>>
    /\ follower.sender = <<[msg |-> "ReadyToCommit", id |-> 1]>>

\* The follower has aborted on a Commit above its batch id.
C40_Aborted ==
    /\ thread = "panicked"
    /\ history.seen # <<>>
    /\ history.seen[Len(history.seen)] > follower.batch_id

====
